---- MODULE Spec2Model ----
(***************************************************************************)
(* Sendspin server side: one SendspinSession (session.ts) on one WebSocket *)
(* transport, managed by the SendspinCore registry (core.ts).              *)
(*                                                                         *)
(* Every method of the session is an operator from a "world" record to a   *)
(* "world" record, so that nested and re-entrant calls (a hook callback    *)
(* calling back into the registry) compose exactly as in the code.  The    *)
(* world holds the session's fields, the transport, the registry's maps,   *)
(* the pending timers and the observable effects of the running handler.   *)
(***************************************************************************)
EXTENDS Integers, Sequences, FiniteSets, TLC

VARIABLES
    session,          \* the fields of the SendspinSession object
    ws,               \* the transport: readyState, bufferedAmount
    hooksByClientId,  \* SendspinCore.hooksByClientId
    sessionsBySocket, \* SendspinCore.sessionsBySocket (set of sockets held)
    pendingRetries,   \* 5 ms setTimeout callbacks of sendPcmAudioFrame not yet run
    emitted,          \* effects of the last handler, in order: writes, closes, hook calls
    written,          \* JSON message types / binary tags written on this connection so far
    hookCalls,        \* number of invocations of the once-per-session lifecycle hooks
    helloRejected,    \* a client/hello failed validation on this connection
    pcm,              \* sendPcmAudioFrame calls made and audio chunks written so far
    registry,         \* SendspinCore.sessionsBySocket with several sockets, in insertion order
    client,           \* a SendspinClient (client.ts), its sockets, timers and connect() calls
    inbox,            \* text frames the peer has sent that have not reached the listener
    filters,          \* a SendspinTimeFilter, a fresh one fed alike since the last reset, the calls
    wire,             \* a binary header on its way through pack and unpack
    playerStartWritten, \* the player stream/start and stream/end frames this connection has carried
    server            \* a SendspinServer: its clients, the sockets it was given, their events

vars == <<session, ws, hooksByClientId, sessionsBySocket, pendingRetries,
          emitted, written, hookCalls, helloRejected, pcm, registry, client,
          inbox, filters, wire, playerStartWritten, server>>

-----------------------------------------------------------------------------
(* Bounds of the model *)

\* sendPcmAudioFrame calls whose deferred retry may be outstanding at once
MaxPendingRetries == 2

\* longest supported_roles list of the role-resolution specification
MaxRoles == 3

\* sendPcmAudioFrame calls made on one session
MaxPcmCalls == 3

\* sockets one registry holds at a time, and connections it accepts in all
MaxSessions == 2
MaxConnections == 3

\* WebSocket objects one SendspinClient creates
MaxClientSockets == 2

-----------------------------------------------------------------------------
(* Values *)

\* A role name is a string; it is held as the sequence of its parts so that
\* split('@') and startsWith('_') are computed, not assumed.
PLAYER     == <<"player", "@", "v1">>
CONTROLLER == <<"controller", "@", "v1">>
METADATA   == <<"metadata", "@", "v1">>
ARTWORK    == <<"artwork", "@", "v1">>
VISUALIZER == <<"visualizer", "@", "v1">>
SOURCE     == <<"source", "@", "v1">>

\* an entry of supported_roles that is not a string (a number, an object)
NonString == <<"#nonstring">>

serverSupported == {PLAYER, CONTROLLER, METADATA, ARTWORK, VISUALIZER, SOURCE}

maxBufferedSend == 524288

AUDIO_CHUNK        == 4
ARTWORK_CHANNEL_0  == 8
SOURCE_AUDIO_CHUNK == 12
VISUALIZATION_DATA == 16
BINARY_HEADER_SIZE == 9

PolicyViolation == 1008

DefaultStreamFormat ==
    [codec |-> "pcm", sampleRate |-> 48000, channels |-> 2, bitDepth |-> 16]

-----------------------------------------------------------------------------
(* Hook objects handed to setHooks / registerHooks.  A hook object is user  *)
(* code: which callbacks it defines, and what its onIdentified callback     *)
(* does (nothing, or a call back into the registry).                        *)

HookNames == {"onPlayerState", "onGroupCommand", "onSourceState", "onSourceCommand",
              "onSourceAudio", "onIdentified", "onDisconnected", "onFormatChanged",
              "onGoodbye", "onUnsupportedRoles"}

LifecycleHooks == {"onIdentified", "onDisconnected", "onUnsupportedRoles"}

EmptyHooks    == [id |-> "empty",    has |-> {},        onIdentifiedBody |-> "noop"]
ObserverHooks == [id |-> "observer", has |-> HookNames, onIdentifiedBody |-> "noop"]
SilentHooks   == [id |-> "silent",   has |-> HookNames \ {"onIdentified"},
                  onIdentifiedBody |-> "noop"]
RebindHooks   == [id |-> "rebind",   has |-> HookNames,
                  onIdentifiedBody |-> "registerHooks"]

UserHooks == {ObserverHooks, SilentHooks, RebindHooks}

ClientC1 == <<"c1">>
ClientIds == {ClientC1}

-----------------------------------------------------------------------------
(* String helpers *)

RECURSIVE TrimStart(_)
TrimStart(s) ==
    IF s # <<>> /\ Head(s) = " " THEN TrimStart(Tail(s)) ELSE s

RECURSIVE TrimEnd(_)
TrimEnd(s) ==
    IF s # <<>> /\ s[Len(s)] = " " THEN TrimEnd(SubSeq(s, 1, Len(s) - 1)) ELSE s

\* String.prototype.trim on a string held as a sequence of parts
Trim(s) == TrimEnd(TrimStart(s))

\* role.split('@')[0]: the parts before the first '@'
RECURSIVE Family(_)
Family(role) ==
    IF role = <<>> \/ Head(role) = "@" THEN <<>>
    ELSE <<Head(role)>> \o Family(Tail(role))

\* role.startsWith('_')
StartsWithUnderscore(role) == role # <<>> /\ Head(role) = "_"

Includes(seq, x) == \E i \in 1..Len(seq) : seq[i] = x

-----------------------------------------------------------------------------
(* The transport (ws) *)

\* ws.close(code, reason): recorded as a call; an OPEN socket starts closing
wsClose(w, code, reason) ==
    [w EXCEPT !.emitted = Append(@, [k |-> "close", code |-> code, reason |-> reason]),
              !.ws.readyState = IF @ = "OPEN" THEN "CLOSING" ELSE @]

\* message types whose first write on the connection is remembered, in order
TrackedTypes == {"server/hello", "group/update"}

NoteWritten(seq, type) ==
    IF type \in TrackedTypes /\ ~Includes(seq, type) THEN Append(seq, type) ELSE seq

\* what the connection has carried for the player's stream: ever, a
\* stream/start with a player format; live, such a stream/start with no
\* stream/end for the player (roles absent or naming player) after it
AfterFrame(history, frame) ==
    IF frame.type = "stream/start" /\ "player" \in DOMAIN frame.payload
    THEN [ever |-> TRUE, live |-> TRUE]
    ELSE IF /\ frame.type = "stream/end"
            /\ (frame.payload.roles = <<>> \/ Includes(frame.payload.roles, PLAYER))
    THEN [history EXCEPT !.live = FALSE]
    ELSE history

\* ws.send(data): the frame goes on the wire
wsSend(w, frame) ==
    [w EXCEPT !.emitted = Append(@, [k |-> "send", frame |-> frame,
                                     buffered |-> w.ws.bufferedAmount]),
              !.written = NoteWritten(@, frame.type),
              !.playerStartWritten = AfterFrame(@, frame),
              !.pcm.written = IF frame.type = "binary" /\ frame.messageType = AUDIO_CHUNK
                              THEN @ + 1 ELSE @]

JsonFrame(type, payload) == [type |-> type, payload |-> payload]
BinaryFrame(messageType) == [type |-> "binary", messageType |-> messageType]

sendJson(w, message) ==
    IF w.ws.readyState # "OPEN" THEN w
    ELSE wsSend(w, message)

sendBinary(w, frame, allowDrop) ==
    IF w.ws.readyState # "OPEN" THEN w
    ELSE IF allowDrop = TRUE /\ w.ws.bufferedAmount > maxBufferedSend
         THEN [w EXCEPT !.session.backpressureDrops = @ + 1,
                        !.session.lastBackpressureBytes = w.ws.bufferedAmount,
                        !.session.backpressureEvents = @ + 1]
         ELSE wsSend(w, frame)

-----------------------------------------------------------------------------
(* JSON values of an inbound payload *)

Undefined == [t |-> "undefined"]
JFalse    == [t |-> "boolean", v |-> FALSE]
Num(n)    == [t |-> "number", v |-> n]
Str(s)    == [t |-> "string", v |-> s]
Arr(a)    == [t |-> "array", v |-> a]
Obj(o)    == [t |-> "object", v |-> o]

\* a ?? b
Coalesce(a, b) == IF a = Undefined THEN b ELSE a

\* !x is false
Truthy(x) == x # Undefined /\ x # JFalse

-----------------------------------------------------------------------------
(* SendspinSession: role resolution *)

RECURSIVE ResolveLoop(_, _, _, _)
ResolveLoop(rest, activeRoles, unsupportedRoles, seenFamilies) ==
    IF rest = <<>>
    THEN [activeRoles |-> activeRoles, unsupportedRoles |-> unsupportedRoles]
    ELSE LET role == Head(rest)
             family == Family(role)
         IN IF role = NonString
            THEN ResolveLoop(Tail(rest), activeRoles, unsupportedRoles, seenFamilies)
            ELSE IF role \in serverSupported
            THEN IF family \notin seenFamilies
                 THEN ResolveLoop(Tail(rest), Append(activeRoles, role),
                                  unsupportedRoles, seenFamilies \cup {family})
                 ELSE ResolveLoop(Tail(rest), activeRoles, unsupportedRoles, seenFamilies)
            ELSE IF ~StartsWithUnderscore(role)
            THEN ResolveLoop(Tail(rest), activeRoles, Append(unsupportedRoles, role),
                             seenFamilies)
            ELSE ResolveLoop(Tail(rest), activeRoles, unsupportedRoles, seenFamilies)

\* a resolution that admits every occurrence of a supported role
RECURSIVE resolveActiveRoles_NoFamilyCheck(_)
resolveActiveRoles_NoFamilyCheck(supportedRoles) ==
    IF supportedRoles = <<>>
    THEN [activeRoles |-> <<>>, unsupportedRoles |-> <<>>]
    ELSE LET r == resolveActiveRoles_NoFamilyCheck(Tail(supportedRoles))
             role == Head(supportedRoles)
         IN IF role \in serverSupported
            THEN [r EXCEPT !.activeRoles = <<role>> \o @]
            ELSE r

resolveActiveRoles(supportedRoles) == ResolveLoop(supportedRoles, <<>>, <<>>, {})

\* ServerClient.resolveActiveRoles: the family is looked up before the role
RECURSIVE ServerClientResolveLoop(_, _, _)
ServerClientResolveLoop(rest, activeRoles, seenFamilies) ==
    IF rest = <<>>
    THEN [activeRoles |-> activeRoles]
    ELSE LET role == Head(rest)
             family == Family(role)
         IN IF role = NonString
            THEN ServerClientResolveLoop(Tail(rest), activeRoles, seenFamilies)
            ELSE IF family \in seenFamilies
            THEN ServerClientResolveLoop(Tail(rest), activeRoles, seenFamilies)
            ELSE IF role \in serverSupported
            THEN ServerClientResolveLoop(Tail(rest), Append(activeRoles, role),
                                         seenFamilies \cup {family})
            ELSE ServerClientResolveLoop(Tail(rest), activeRoles, seenFamilies)

serverClientResolveActiveRoles(supportedRoles) ==
    ServerClientResolveLoop(supportedRoles, <<>>, {})

-----------------------------------------------------------------------------
(* SendspinSession: hooks and identification; SendspinCore: hook registry *)

\* this.hooks.<name> is defined
HasHook(w, name) == name \in w.session.hooks.has

RecordHook(w, name) ==
    [w EXCEPT !.emitted = Append(@, [k |-> "hook", name |-> name,
                                     hooks |-> w.session.hooks.id,
                                     clientId |-> w.session.clientId]),
              !.hookCalls = IF name \in LifecycleHooks
                            THEN [@ EXCEPT ![name] = @ + 1] ELSE @]

\* SendspinCore.getSession: is the session the one registered under clientId
getSession(w, clientId) ==
    "ws" \in w.sessionsBySocket /\ w.session.clientId = clientId

RECURSIVE maybeNotifyIdentified(_)
RECURSIVE setHooks(_, _)
RECURSIVE registerHooks(_, _, _)

\* the body of a callback of the attached hook object
RunHook(w, name) ==
    LET called == RecordHook(w, name)
    IN IF name = "onIdentified" /\ w.session.hooks.onIdentifiedBody = "registerHooks"
       THEN registerHooks(called, w.session.clientId, ObserverHooks)
       ELSE called

\* this.hooks.<name>?.(...)
CallHook(w, name) == IF HasHook(w, name) THEN RunHook(w, name) ELSE w

maybeNotifyIdentified_NoStateGate(w) ==
    IF w.session.identified THEN w
    ELSE IF ~w.session.ready \/ ~HasHook(w, "onIdentified") THEN w
    ELSE LET after == RunHook(w, "onIdentified")
         IN [after EXCEPT !.session.identified = TRUE]

maybeNotifyIdentified(w) ==
    IF w.session.identified THEN w
    ELSE IF ~w.session.ready \/ ~HasHook(w, "onIdentified") THEN w
    ELSE IF w.session.initialStateRequired /\ ~w.session.initialStateReceived THEN w
    ELSE LET after == RunHook(w, "onIdentified")
         IN [after EXCEPT !.session.identified = TRUE]

setHooks(w, hooks) ==
    maybeNotifyIdentified([w EXCEPT !.session.hooks = hooks,
                                    !.session.hooksAttached = TRUE])

\* hooksByClientId is a Map, held as its set of <<key, value>> entries
MapDelete(map, key) == {e \in map : e[1] # key}
MapSet(map, key, value) == MapDelete(map, key) \cup {<<key, value>>}
MapHas(map, key) == \E e \in map : e[1] = key
MapGet(map, key) == (CHOOSE e \in map : e[1] = key)[2]

registerHooks(w, clientId, hooks) ==
    LET stored == [w EXCEPT !.hooksByClientId = MapSet(@, clientId, hooks)]
    IN IF getSession(stored, clientId) THEN setHooks(stored, hooks) ELSE stored

unregisterHooks(w, clientId) ==
    LET removed == [w EXCEPT !.hooksByClientId = MapDelete(@, clientId)]
    IN IF getSession(removed, clientId) THEN setHooks(removed, EmptyHooks) ELSE removed

-----------------------------------------------------------------------------
(* SendspinSession: outbound JSON *)

sendServerHello(w) ==
    IF w.session.roles = <<>> THEN w
    ELSE sendJson(w, JsonFrame("server/hello", [active_roles |-> w.session.roles]))

sendGroupUpdate(w, playbackState) ==
    IF ~w.session.ready THEN w
    ELSE sendJson(w, JsonFrame("group/update", [playback_state |-> playbackState]))

StreamStartPlayer(format) == JsonFrame("stream/start", [player |-> format])

sendStreamStart(w, format) ==
    IF ~w.session.ready THEN w
    ELSE LET merged == [f \in DOMAIN w.session.streamFormat |->
                            IF f \in DOMAIN format THEN format[f]
                            ELSE w.session.streamFormat[f]]
         IN sendJson([w EXCEPT !.session.streamFormat = merged,
                               !.session.activeStream = TRUE],
                     StreamStartPlayer(merged))

sendStreamFormat(w) ==
    IF ~w.session.ready THEN w
    ELSE sendJson([w EXCEPT !.session.activeStream = TRUE],
                  StreamStartPlayer(w.session.streamFormat))

sendStreamClear(w, roles) ==
    IF ~w.session.ready THEN w
    ELSE sendJson(w, JsonFrame("stream/clear", [roles |-> roles]))

sendStreamEnd(w, roles) ==
    IF ~w.session.ready THEN w
    ELSE sendJson([w EXCEPT !.session.activeStream = FALSE],
                  JsonFrame("stream/end", [roles |-> roles]))

\* payload: the set of sections ("player", "source") the command carries
sendServerCommand(w, payload) ==
    IF ~w.session.ready THEN w
    ELSE LET canSendPlayer == "player" \in payload /\ Includes(w.session.roles, PLAYER)
             canSendSource == "source" \in payload /\ Includes(w.session.roles, SOURCE)
         IN IF ~canSendPlayer /\ ~canSendSource THEN w
            ELSE sendJson(w, JsonFrame("server/command", [sections |-> payload]))

sendMetadata(w) ==
    IF ~w.session.ready THEN w
    ELSE IF ~Includes(w.session.roles, METADATA) THEN w
    ELSE sendJson(w, JsonFrame("server/state", [section |-> "metadata"]))

sendControllerState(w) ==
    IF ~w.session.ready THEN w
    ELSE IF ~Includes(w.session.roles, CONTROLLER) THEN w
    ELSE sendJson(w, JsonFrame("server/state", [section |-> "controller"]))

sendArtworkStreamStart(w, channels) ==
    IF ~w.session.ready THEN w
    ELSE IF ~Includes(w.session.roles, ARTWORK) THEN w
    ELSE sendJson([w EXCEPT !.session.artworkChannels = channels],
                  JsonFrame("stream/start", [artwork |-> channels]))

sendVisualizerStreamStart(w) ==
    IF ~w.session.ready THEN w
    ELSE IF ~Includes(w.session.roles, VISUALIZER) THEN w
    ELSE sendJson(w, JsonFrame("stream/start", [section |-> "visualizer"]))

-----------------------------------------------------------------------------
(* SendspinSession: outbound binary *)

ensureStreamStarted(w) ==
    IF w.session.activeStream THEN w
    ELSE IF w.ws.readyState # "OPEN" THEN w
    ELSE sendStreamFormat(w)

\* the call is counted on entry, whatever it goes on to do
sendPcmAudioFrame(w) ==
    IF w.ws.readyState # "OPEN" THEN [w EXCEPT !.pcm.calls = @ + 1]
    ELSE LET started == ensureStreamStarted([w EXCEPT !.pcm.calls = @ + 1])
         IN IF started.ws.bufferedAmount > maxBufferedSend
            THEN [started EXCEPT !.pendingRetries = @ + 1]
            ELSE sendBinary(started, BinaryFrame(AUDIO_CHUNK), FALSE)

\* the setTimeout callback of sendPcmAudioFrame, 5 ms later
pcmRetry(w) ==
    LET fired == [w EXCEPT !.pendingRetries = @ - 1]
    IN IF fired.ws.readyState = "OPEN"
       THEN sendBinary(fired, BinaryFrame(AUDIO_CHUNK), FALSE)
       ELSE fired

sendArtwork(w, channel) ==
    IF ~w.session.ready THEN w
    ELSE sendBinary(w, BinaryFrame(ARTWORK_CHANNEL_0 + channel), FALSE)

sendVisualizerFrame(w) ==
    IF ~w.session.ready THEN w
    ELSE IF ~Includes(w.session.roles, VISUALIZER) THEN w
    ELSE sendBinary(w, BinaryFrame(VISUALIZATION_DATA), FALSE)

-----------------------------------------------------------------------------
(* SendspinSession: handshake *)

IsPositiveNumber(x) == x.t = "number" /\ x.v > 0

IsSupportedFormat(fmt) == fmt.codec \in {"opus", "flac", "pcm"}

HasValidNumbers(fmt) ==
    /\ IsPositiveNumber(fmt.sample_rate)
    /\ IsPositiveNumber(fmt.channels)
    /\ IsPositiveNumber(fmt.bit_depth)

\* supportedFormats.find(...): index of the first usable entry, 0 when none
RECURSIVE FindPreferred(_, _)
FindPreferred(formats, i) ==
    IF i > Len(formats) THEN 0
    ELSE IF IsSupportedFormat(formats[i]) /\ HasValidNumbers(formats[i]) THEN i
    ELSE FindPreferred(formats, i + 1)

\* playerSupport: the player capability block kept by the session (an object)
applyPreferredStreamFormat(w, playerSupport) ==
    LET supportedFormats ==
            IF "supported_formats" \in DOMAIN playerSupport.v
               /\ playerSupport.v.supported_formats.t = "array"
            THEN playerSupport.v.supported_formats.v ELSE <<>>
        i == FindPreferred(supportedFormats, 1)
    IN IF supportedFormats = <<>> \/ i = 0 THEN w
       ELSE [w EXCEPT !.session.streamFormat =
                [codec |-> supportedFormats[i].codec,
                 sampleRate |-> supportedFormats[i].sample_rate.v,
                 channels |-> supportedFormats[i].channels.v,
                 bitDepth |-> supportedFormats[i].bit_depth.v]]

NormalizeChannel(c) ==
    [source |-> IF c.source = "artist" THEN "artist"
                ELSE IF c.source = "none" THEN "none" ELSE "album",
     format |-> IF c.format = "png" THEN "png"
                ELSE IF c.format = "bmp" THEN "bmp" ELSE "jpeg",
     width  |-> IF c.media_width.t = "number" THEN c.media_width.v ELSE 800,
     height |-> IF c.media_height.t = "number" THEN c.media_height.v ELSE 800]

startInitialStateTimeout(w) ==
    IF ~Includes(w.session.roles, PLAYER) THEN w
    ELSE IF w.session.initialStateReceived \/ w.session.initialStateTimer # "null" THEN w
    ELSE [w EXCEPT !.session.initialStateTimer = "pending"]

\* the setTimeout callback of startInitialStateTimeout, 5000 ms later
initialStateTimeout(w) ==
    LET fired == [w EXCEPT !.session.initialStateTimer = "expired"]
    IN IF fired.session.initialStateReceived THEN fired
       ELSE wsClose(fired, {PolicyViolation}, "initial state timeout")

\* the tail of handleHello, once the payload has passed validation
AcceptHello(w, unsupportedRoles, playerSupport, artworkSupport) ==
    LET kept == IF Truthy(playerSupport) THEN playerSupport ELSE Obj(<<>>)
        artworkChannels ==
            IF Truthy(artworkSupport) /\ artworkSupport.t = "object"
               /\ "channels" \in DOMAIN artworkSupport.v
               /\ artworkSupport.v.channels.t = "array"
            THEN artworkSupport.v.channels.v ELSE <<>>
        w1 == IF artworkChannels # <<>>
              THEN [w EXCEPT !.session.artworkChannels =
                        [i \in 1..Len(artworkChannels) |->
                            NormalizeChannel(artworkChannels[i])]]
              ELSE w
        w2 == [w1 EXCEPT !.session.initialStateRequired = Includes(w1.session.roles, PLAYER)]
        w3 == applyPreferredStreamFormat(w2, kept)
        w4 == [w3 EXCEPT !.session.ready = TRUE]
        w5 == sendServerHello(w4)
        w6 == startInitialStateTimeout(w5)
        w7 == sendGroupUpdate(w6, "stopped")
        w8 == IF unsupportedRoles # <<>> THEN CallHook(w7, "onUnsupportedRoles") ELSE w7
    IN maybeNotifyIdentified(w8)

Reject(w, reason) ==
    wsClose([w EXCEPT !.helloRejected = TRUE], {PolicyViolation}, reason)

\* the capability checks of handleHello, in the order player, visualizer, artwork, source
CheckSupport_Reordered(w, playerSupport, artworkSupport, visualizerSupport, sourceSupport) ==
    IF Includes(w.session.roles, PLAYER) /\ ~Truthy(playerSupport)
    THEN "missing player support"
    ELSE IF Includes(w.session.roles, VISUALIZER) /\ ~Truthy(visualizerSupport)
    THEN "missing visualizer support"
    ELSE IF Includes(w.session.roles, ARTWORK) /\ ~Truthy(artworkSupport)
    THEN "missing artwork support"
    ELSE IF Includes(w.session.roles, SOURCE) /\ ~Truthy(sourceSupport)
    THEN "missing source support"
    ELSE "ok"

\* the capability checks of handleHello: the reason of the first that fails
CheckSupport(w, playerSupport, artworkSupport, visualizerSupport, sourceSupport) ==
    IF Includes(w.session.roles, PLAYER) /\ ~Truthy(playerSupport)
    THEN "missing player support"
    ELSE IF Includes(w.session.roles, ARTWORK) /\ ~Truthy(artworkSupport)
    THEN "missing artwork support"
    ELSE IF Includes(w.session.roles, VISUALIZER) /\ ~Truthy(visualizerSupport)
    THEN "missing visualizer support"
    ELSE IF Includes(w.session.roles, SOURCE) /\ ~Truthy(sourceSupport)
    THEN "missing source support"
    ELSE "ok"

Field(payload, name) == IF name \in DOMAIN payload.v THEN payload.v[name] ELSE Undefined

handleHello(w, payload) ==
    LET version == IF payload # Undefined /\ Field(payload, "version").t = "number"
                   THEN Field(payload, "version").v ELSE 0
    IN IF payload = Undefined \/ Field(payload, "version").t # "number" \/ version # 1
       THEN Reject(w, "invalid protocol version")
       ELSE
       LET rawClientId == IF Field(payload, "client_id").t = "string"
                          THEN Trim(Field(payload, "client_id").v) ELSE <<>>
       IN IF rawClientId = <<>> THEN Reject(w, "missing client_id")
          ELSE
          LET w1 == [w EXCEPT !.session.clientId = rawClientId,
                              !.session.clientName =
                                  IF Field(payload, "name").t = "string"
                                  THEN Str(Trim(Field(payload, "name").v))
                                  ELSE [t |-> "null"]]
              supportedRoles == IF Field(payload, "supported_roles").t = "array"
                                THEN Field(payload, "supported_roles").v ELSE <<>>
          IN IF supportedRoles = <<>> THEN Reject(w1, "missing supported_roles")
             ELSE
             LET resolved == resolveActiveRoles(supportedRoles)
                 w2 == [w1 EXCEPT !.session.roles = resolved.activeRoles]
                 playerSupport == Coalesce(Field(payload, "player@v1_support"),
                                           Field(payload, "player_support"))
                 artworkSupport == Coalesce(Field(payload, "artwork@v1_support"),
                                            Field(payload, "artwork_support"))
                 visualizerSupport == Coalesce(Field(payload, "visualizer@v1_support"),
                                               Field(payload, "visualizer_support"))
                 sourceSupport == Coalesce(Field(payload, "source@v1_support"),
                                           Field(payload, "source_support"))
                 failed == CheckSupport(w2, playerSupport, artworkSupport,
                                        visualizerSupport, sourceSupport)
             IN IF failed # "ok" THEN Reject(w2, failed)
                ELSE AcceptHello(w2, resolved.unsupportedRoles,
                                 playerSupport, artworkSupport)

-----------------------------------------------------------------------------
(* SendspinSession: runtime message handlers *)

handleClientTime(w, payload) ==
    sendJson(w, JsonFrame("server/time",
                          [client_transmitted |-> Field(payload, "client_transmitted")]))

\* a client/state handler that leaves the initial-state timer running
handleClientState_KeepTimer(w, payload) ==
    LET w1 == IF ~w.session.initialStateReceived
              THEN maybeNotifyIdentified([w EXCEPT !.session.initialStateReceived = TRUE])
              ELSE w
        w2 == CallHook(w1, "onPlayerState")
        source == Field(payload, "source")
    IN IF Truthy(source) /\ HasHook(w2, "onSourceState")
       THEN RunHook(w2, "onSourceState")
       ELSE w2

handleClientState(w, payload) ==
    LET w1 == IF ~w.session.initialStateReceived
              THEN maybeNotifyIdentified(
                       [w EXCEPT !.session.initialStateReceived = TRUE,
                                 !.session.initialStateTimer =
                                     IF @ # "null" THEN "null" ELSE @])
              ELSE w
        w2 == CallHook(w1, "onPlayerState")
        source == Field(payload, "source")
    IN IF Truthy(source) /\ HasHook(w2, "onSourceState")
       THEN RunHook(w2, "onSourceState")
       ELSE w2

handleClientCommand(w, payload) ==
    LET w1 == IF Truthy(Field(payload, "controller"))
              THEN CallHook(w, "onGroupCommand") ELSE w
    IN IF Truthy(Field(payload, "source")) THEN CallHook(w1, "onSourceCommand") ELSE w1

handleClientGoodbye(w, payload) ==
    LET reason == IF payload = Undefined THEN Undefined ELSE Field(payload, "reason")
        w1 == IF Truthy(reason) THEN CallHook(w, "onGoodbye") ELSE w
    IN wsClose(w1, {}, "")

\* normalizeCodec: the codec to adopt, Undefined when the string is unknown or absent
normalizeCodec(codec) ==
    IF codec = Undefined THEN Undefined
    ELSE IF codec.v \in {"opus", "flac", "pcm"} THEN codec
    ELSE Undefined

applyPlayerFormatRequest(w, request) ==
    LET codec == normalizeCodec(Field(request, "codec"))
        cur == w.session.streamFormat
        NumOr(name, old) == IF Field(request, name).t = "number"
                            THEN Field(request, name).v ELSE old
    IN [w EXCEPT !.session.streamFormat =
            [codec      |-> IF codec # Undefined THEN codec.v ELSE cur.codec,
             sampleRate |-> NumOr("sample_rate", cur.sampleRate),
             channels   |-> NumOr("channels", cur.channels),
             bitDepth   |-> NumOr("bit_depth", cur.bitDepth)]]

Max(a, b) == IF a > b THEN a ELSE b
Min(a, b) == IF a < b THEN a ELSE b

applyArtworkFormatRequest(w, request) ==
    IF Field(request, "channel").t # "number" THEN w
    ELSE LET idx == Max(0, Min(3, Field(request, "channel").v))
             chans == w.session.artworkChannels
         IN IF idx < 0 \/ idx >= Len(chans) THEN w
            ELSE LET current == chans[idx + 1]
                     StrOr(name, old) == IF Field(request, name) # Undefined
                                         THEN Field(request, name).v ELSE old
                     NumOr(name, old) == IF Field(request, name).t = "number"
                                         THEN Field(request, name).v ELSE old
                     next == [source |-> StrOr("source", current.source),
                              format |-> StrOr("format", current.format),
                              width  |-> NumOr("media_width", current.width),
                              height |-> NumOr("media_height", current.height)]
                     updated == [chans EXCEPT ![idx + 1] = next]
                 IN sendArtworkStreamStart(
                        [w EXCEPT !.session.artworkChannels = updated], updated)

handleStreamRequestFormat(w, payload) ==
    LET player == Field(payload, "player")
        artwork == Field(payload, "artwork")
    IN IF Truthy(player) /\ ~Includes(w.session.roles, PLAYER) THEN w
       ELSE LET w1 == IF Truthy(player) THEN applyPlayerFormatRequest(w, player) ELSE w
            IN IF Truthy(artwork) /\ ~Includes(w1.session.roles, ARTWORK) THEN w1
               ELSE LET w2 == IF Truthy(artwork)
                              THEN applyArtworkFormatRequest(w1, artwork) ELSE w1
                    IN sendStreamFormat(CallHook(w2, "onFormatChanged"))

-----------------------------------------------------------------------------
(* SendspinSession: inbound dispatch and teardown *)

\* reading msg.type throws a TypeError when JSON.parse returned null
ThrowsOnType(msg) == msg.parsed /\ "type" \notin DOMAIN msg

\* an exception leaves the handler; nothing after the throwing statement runs
Throw(w, error) == [w EXCEPT !.emitted = Append(@, [k |-> "throw", error |-> error])]

\* a text frame: msg.parsed is FALSE when JSON.parse throws
handleText(w, msg) ==
    IF ~msg.parsed THEN w
    ELSE IF ThrowsOnType(msg) THEN Throw(w, "TypeError")
    ELSE IF ~w.session.ready
    THEN IF msg.type # "client/hello"
         THEN wsClose(w, {PolicyViolation}, "expected client/hello first")
         ELSE handleHello(w, msg.payload)
    ELSE IF msg.type = "client/hello" THEN w
    ELSE IF msg.type = "client/time" THEN handleClientTime(w, msg.payload)
    ELSE IF msg.type = "client/state" THEN handleClientState(w, msg.payload)
    ELSE IF msg.type = "client/command" THEN handleClientCommand(w, msg.payload)
    ELSE IF msg.type = "client/goodbye" THEN handleClientGoodbye(w, msg.payload)
    ELSE IF msg.type = "stream/request-format"
    THEN handleStreamRequestFormat(w, msg.payload)
    ELSE w

\* buf: [byteLength, messageType]; unpackBinaryHeader throws on a short buffer
handleBinary(w, buf) ==
    IF buf.byteLength < BINARY_HEADER_SIZE THEN w
    ELSE IF buf.messageType = SOURCE_AUDIO_CHUNK
    THEN IF ~Includes(w.session.roles, SOURCE) THEN w
         ELSE CallHook(w, "onSourceAudio")
    ELSE w

\* the counters a caller reads; backpressureEvents is held as its length and
\* no event is old enough to be pruned
getBackpressureStats(w) ==
    [drops |-> w.session.backpressureDrops,
     lastBytes |-> w.session.lastBackpressureBytes,
     recentDrops |-> w.session.backpressureEvents]

\* a teardown that leaves the initial-state timer running
destroy_KeepTimer(w) == CallHook(w, "onDisconnected")

destroy(w) ==
    CallHook([w EXCEPT !.session.initialStateTimer = IF @ # "null" THEN "null" ELSE @],
             "onDisconnected")

-----------------------------------------------------------------------------
(* SendspinCore: the listeners handleConnection puts on the socket *)

\* a message listener that never looks up the pending hooks
onTextMessage_NoPendingAttach(w, msg) == handleText(w, msg)

\* ws.on('message') for a text frame; an exception thrown by handleText leaves
\* the listener before the pending hooks are looked up
onTextMessage(w, msg) ==
    LET handled == handleText(w, msg)
        info == handled.session.clientId
    IN IF ThrowsOnType(msg) THEN handled
       ELSE IF info # <<>> /\ ~handled.session.hooksAttached
               /\ MapHas(handled.hooksByClientId, info)
       THEN setHooks(handled, MapGet(handled.hooksByClientId, info))
       ELSE handled

\* ws.on('close')
onClose(w) ==
    destroy([w EXCEPT !.sessionsBySocket = @ \ {"ws"}, !.ws.readyState = "CLOSED"])

-----------------------------------------------------------------------------
(* The binary header (binary.ts)                                           *)
(*                                                                         *)
(* A buffer is a sequence of bytes.  A 64-bit field is handled as its 64   *)
(* bits, most significant first.  A JavaScript number that holds an        *)
(* integer is [neg, mag]: its sign and the bits of its magnitude; a        *)
(* BigInt has the same shape.                                              *)

Pow2(n) == IF n = 0 THEN 1 ELSE IF n = 1 THEN 2 ELSE IF n = 2 THEN 4
           ELSE IF n = 3 THEN 8 ELSE IF n = 4 THEN 16 ELSE IF n = 5 THEN 32
           ELSE IF n = 6 THEN 64 ELSE 128

\* the eight bytes of a 64-bit field as bits, and back
BitsOf(bytes) ==
    [i \in 1..64 |-> (bytes[((i - 1) \div 8) + 1] \div Pow2(7 - ((i - 1) % 8))) % 2]

BytesOf(bits) ==
    [j \in 1..8 |->
        bits[8 * j - 7] * 128 + bits[8 * j - 6] * 64 + bits[8 * j - 5] * 32
        + bits[8 * j - 4] * 16 + bits[8 * j - 3] * 8 + bits[8 * j - 2] * 4
        + bits[8 * j - 1] * 2 + bits[8 * j]]

ZeroBits == [i \in 1..64 |-> 0]

\* bits + 2^(64 - q) modulo 2^64
AddBit(bits, q) ==
    LET zeros == {i \in 1..q : bits[i] = 0}
    IN IF zeros = {} THEN [i \in 1..64 |-> IF i <= q THEN 0 ELSE bits[i]]
       ELSE LET z == CHOOSE i \in zeros : \A j \in zeros : j <= i
            IN [i \in 1..64 |-> IF i = z THEN 1
                                ELSE IF i > z /\ i <= q THEN 0 ELSE bits[i]]

\* two's complement negation
Negate(bits) == AddBit([i \in 1..64 |-> 1 - bits[i]], 64)

\* the value of a signed 64-bit field: buffer.readBigInt64BE
readBigInt64BE(bytes) ==
    LET bits == BitsOf(bytes)
    IN IF bits[1] = 1 THEN [neg |-> TRUE, mag |-> Negate(bits)]
       ELSE [neg |-> FALSE, mag |-> bits]

\* Number(bigint), and the number a numeric literal denotes: the nearest
\* double, ties to even; a double keeps 53 significant bits
ToNumber(x) ==
    LET ones == {i \in 1..64 : x.mag[i] = 1}
    IN IF ones = {} THEN [neg |-> FALSE, mag |-> ZeroBits]
       ELSE LET top == CHOOSE i \in ones : \A j \in ones : i <= j
                last == top + 52
            IN IF last >= 64 THEN x
               ELSE LET kept == [i \in 1..64 |-> IF i <= last THEN x.mag[i] ELSE 0]
                        sticky == \E i \in (last + 2)..64 : x.mag[i] = 1
                        roundUp == x.mag[last + 1] = 1 /\ (sticky \/ x.mag[last] = 1)
                    IN [neg |-> x.neg,
                        mag |-> IF roundUp THEN AddBit(kept, last) ELSE kept]

\* buffer.writeBigInt64BE(BigInt(number)): a RangeError outside [-2^63, 2^63)
writeBigInt64BE(number) ==
    IF number.neg
    THEN IF number.mag[1] = 1 /\ number.mag # Negate(number.mag)
         THEN [thrown |-> TRUE]
         ELSE [thrown |-> FALSE, bytes |-> BytesOf(Negate(number.mag))]
    ELSE IF number.mag[1] = 1 THEN [thrown |-> TRUE]
         ELSE [thrown |-> FALSE, bytes |-> BytesOf(number.mag)]

\* data: a sequence of bytes
unpackBinaryHeader(data) ==
    IF Len(data) < BINARY_HEADER_SIZE THEN [thrown |-> TRUE]
    ELSE [thrown |-> FALSE, messageType |-> data[1],
          timestampUs |-> ToNumber(readBigInt64BE(SubSeq(data, 2, 9)))]

\* header: [messageType, timestampUs], timestampUs a number
packBinaryHeader(header) ==
    LET field == writeBigInt64BE(header.timestampUs)
    IN IF field.thrown THEN [thrown |-> TRUE]
       ELSE [thrown |-> FALSE, buffer |-> <<header.messageType>> \o field.bytes]

packBinaryHeaderRaw(messageType, timestampUs) ==
    packBinaryHeader([messageType |-> messageType, timestampUs |-> timestampUs])

-----------------------------------------------------------------------------
(* SendspinTimeFilter                                                      *)
(*                                                                         *)
(* The filter's estimates are real numbers.  An integer is Exact(n), a     *)
(* quotient of integers is kept in lowest terms, the initial covariance is *)
(* Infinity, and a result of the Kalman step (count >= 2) is kept as the   *)
(* term of its inputs: two such results are equal when their inputs are.   *)

Exact(n) == [real |-> "integer", v |-> n]

Infinity == [real |-> "infinity"]

Abs(n) == IF n < 0 THEN -n ELSE n

RECURSIVE Gcd(_, _)
Gcd(a, b) == IF b = 0 THEN a ELSE Gcd(b, a % b)

\* n / d for d # 0
Quotient(n, d) ==
    LET g == Gcd(Abs(n), Abs(d))
        num == (IF d < 0 THEN -n ELSE n) \div g
        den == Abs(d) \div g
    IN IF den = 1 THEN Exact(num) ELSE [real |-> "quotient", num |-> num, den |-> den]

\* a value the Kalman step computes from the prior state and its arguments
KalmanTerm(part, f, measurement, maxError, dt) ==
    [real |-> "kalman", part |-> part,
     prior |-> [offset |-> f.offset, drift |-> f.drift,
                offsetCovariance |-> f.offsetCovariance,
                offsetDriftCovariance |-> f.offsetDriftCovariance,
                driftCovariance |-> f.driftCovariance,
                forgetting |-> f.count >= 100],
     measurement |-> measurement, maxError |-> maxError, dt |-> dt]

NewTimeElement == [lastUpdate |-> 0, offset |-> Exact(0), drift |-> Exact(0)]

\* new SendspinTimeFilter()
NewTimeFilter ==
    [lastUpdate |-> 0, count |-> 0, offset |-> Exact(0), drift |-> Exact(0),
     offsetCovariance |-> Infinity, offsetDriftCovariance |-> Exact(0),
     driftCovariance |-> Exact(0), current |-> NewTimeElement]

Snapshot(f) == [f EXCEPT !.current = [lastUpdate |-> f.lastUpdate, offset |-> f.offset,
                                      drift |-> f.drift]]

\* update(measurement, maxError, timeAdded) with integer arguments
timeFilterUpdate(f, measurement, maxError, timeAdded) ==
    IF timeAdded = f.lastUpdate THEN f
    ELSE LET dt == timeAdded - f.lastUpdate
             measurementVariance == maxError * maxError
             timed == [f EXCEPT !.lastUpdate = timeAdded]
         IN IF f.count <= 0
            THEN Snapshot([timed EXCEPT !.count = @ + 1,
                                        !.offset = Exact(measurement),
                                        !.offsetCovariance = Exact(measurementVariance),
                                        !.drift = Exact(0)])
            ELSE IF f.count = 1
            THEN Snapshot([timed EXCEPT
                    !.count = @ + 1,
                    !.drift = Quotient(measurement - f.offset.v, dt),
                    !.offset = Exact(measurement),
                    !.driftCovariance = Quotient(f.offsetCovariance.v + measurementVariance, dt),
                    !.offsetCovariance = Exact(measurementVariance)])
            ELSE Snapshot([timed EXCEPT
                    !.count = IF @ < 100 THEN @ + 1 ELSE @,
                    !.offset = KalmanTerm("offset", f, measurement, maxError, dt),
                    !.drift = KalmanTerm("drift", f, measurement, maxError, dt),
                    !.driftCovariance =
                        KalmanTerm("driftCovariance", f, measurement, maxError, dt),
                    !.offsetDriftCovariance =
                        KalmanTerm("offsetDriftCovariance", f, measurement, maxError, dt),
                    !.offsetCovariance =
                        KalmanTerm("offsetCovariance", f, measurement, maxError, dt)])

\* reset(): lastUpdate is not among the fields it assigns
timeFilterReset(f) ==
    [f EXCEPT !.count = 0, !.offset = Exact(0), !.drift = Exact(0),
              !.offsetCovariance = Infinity, !.offsetDriftCovariance = Exact(0),
              !.driftCovariance = Exact(0), !.current = NewTimeElement]

\* Number.isFinite of a covariance
IsFinite(x) == x # Infinity

isSynchronized(f) == f.count >= 2 /\ IsFinite(f.offsetCovariance)

\* Math.round(n / d) for d > 0: the nearest integer, halves upwards
RoundQuotient(n, d) == (2 * n + d) \div (2 * d)

\* Math.round(offset + drift * dt) of the projection snapshot
ProjectedOffset(current, dt) ==
    IF current.offset.real = "integer" /\ current.drift.real = "integer"
    THEN Exact(current.offset.v + current.drift.v * dt)
    ELSE IF current.offset.real = "integer" /\ current.drift.real = "quotient"
    THEN Exact(RoundQuotient(current.offset.v * current.drift.den + current.drift.num * dt,
                             current.drift.den))
    ELSE [real |-> "rounded", current |-> current, dt |-> dt]

\* computeServerTime(clientTime)
computeServerTime(f, clientTime) ==
    LET offset == ProjectedOffset(f.current, clientTime - f.current.lastUpdate)
    IN IF offset.real = "integer" THEN Exact(clientTime + offset.v)
       ELSE [real |-> "sum", clientTime |-> clientTime, offset |-> offset]

-----------------------------------------------------------------------------
(* The client: SendspinClient (client.ts)                                  *)
(*                                                                         *)
(* The client record holds the object's fields, every WebSocket the client *)
(* has created (sockets) and every connect() call that created one         *)
(* (connects; call k owns socket k).  this.ws is an index into sockets,    *)
(* 0 for undefined.  A method is an operator from client record to client  *)
(* record; one operator covers the code that runs without yielding to the  *)
(* event loop, and each timer or socket event is an action of its own.     *)

\* the object after its constructor
NewClientOf(roles) ==
    [roles |-> roles, ws |-> 0, connected |-> FALSE, readerClosed |-> FALSE,
     serverInfo |-> FALSE, serverHelloResolve |-> 0,
     streamActive |-> FALSE, currentPlayer |-> FALSE,
     currentAudioFormat |-> Undefined, timeSyncTimer |-> FALSE,
     timeSyncTimeouts |-> 0,
     timeFilter |-> NewTimeFilter,
     sockets |-> <<>>, connects |-> <<>>, thrown |-> FALSE, emitted |-> <<>>]

NewClient == NewClientOf(<<PLAYER>>)

\* new WebSocket(url) with the listeners connect() puts on it; sent and
\* heardHello are the history of the connection
NewSocket ==
    [readyState |-> "CONNECTING", listeners |-> TRUE, closeWaiter |-> FALSE,
     sent |-> <<>>, heardHello |-> FALSE]

ClientEmit(c, e) == [c EXCEPT !.emitted = Append(@, e)]

\* a connect() call's promise settles
Settle(c, k, outcome) ==
    LET noted == ClientEmit(c, [k |-> "settle", call |-> k, outcome |-> outcome])
    IN IF k = 0 THEN noted
       ELSE [noted EXCEPT !.connects[k].state = outcome]

SocketIsOpen(c) == c.ws # 0 /\ c.sockets[c.ws].readyState = "OPEN"

isConnected(c) == c.connected /\ SocketIsOpen(c)

\* the first write of each message type on a socket, in order
NoteSent(seq, type) == IF Includes(seq, type) THEN seq ELSE Append(seq, type)

sendMessage(c, type) ==
    IF ~SocketIsOpen(c) THEN [c EXCEPT !.thrown = TRUE]
    ELSE [ClientEmit(c, [k |-> "send", sock |-> c.ws, type |-> type])
            EXCEPT !.sockets[c.ws].sent = NoteSent(@, type)]

sendPlayerState(c) ==
    IF ~isConnected(c) THEN [c EXCEPT !.thrown = TRUE]
    ELSE sendMessage(c, "client/state")

sendTimeMessage(c) ==
    IF ~isConnected(c) THEN c
    ELSE sendMessage(c, "client/time")

\* timeSyncTimer says that the field holds the handle of a timeout that has
\* not run yet; timeSyncTimeouts counts the time-sync timeouts that
\* setTimeout has armed and that have neither run nor been cleared
stopTimeSync(c) ==
    IF c.timeSyncTimer
    THEN [c EXCEPT !.timeSyncTimer = FALSE, !.timeSyncTimeouts = @ - 1]
    ELSE c

scheduleTimeSync_NoStop(c) ==
    [c EXCEPT !.timeSyncTimer = TRUE, !.timeSyncTimeouts = @ + 1]

scheduleTimeSync(c) ==
    [stopTimeSync(c) EXCEPT !.timeSyncTimer = TRUE, !.timeSyncTimeouts = @ + 1]

\* the callback of the time-sync timer: its timeout has run, so the handle
\* left in the field is one that clearTimeout does nothing with
timeSyncCallback(c) ==
    LET fired == [c EXCEPT !.timeSyncTimer = FALSE, !.timeSyncTimeouts = @ - 1]
    IN scheduleTimeSync([sendTimeMessage(fired) EXCEPT !.thrown = FALSE])

cleanup(c) ==
    LET stopped == stopTimeSync(c)
        bare == IF c.ws = 0 THEN stopped
                ELSE [stopped EXCEPT !.sockets[c.ws].listeners = FALSE]
    IN ClientEmit([bare EXCEPT !.ws = 0, !.serverInfo = FALSE,
                               !.streamActive = FALSE, !.currentPlayer = FALSE,
                               !.currentAudioFormat = Undefined,
                               !.timeFilter = timeFilterReset(@)],
                  [k |-> "notify", name |-> "disconnect"])

\* disconnect() up to its await, or to its end when it does not wait for the
\* close of the socket
disconnect(c) ==
    IF ~c.connected /\ ~SocketIsOpen(c) THEN cleanup(c)
    ELSE LET stopped == stopTimeSync([c EXCEPT !.connected = FALSE])
         IN IF SocketIsOpen(stopped) /\ ~stopped.readerClosed
            THEN [stopped EXCEPT !.readerClosed = TRUE,
                                 !.sockets[c.ws].closeWaiter = TRUE,
                                 !.sockets[c.ws].readyState = "CLOSING"]
            ELSE cleanup(stopped)

\* disconnect() after its await: the close event or the 100 ms timer resolved it
disconnectResumes(c, s) == cleanup([c EXCEPT !.sockets[s].closeWaiter = FALSE])

\* connect() up to 'await openPromise'; url is "valid" or "invalid"
connect(c, url) ==
    IF isConnected(c) THEN Settle(c, 0, "resolved")
    ELSE IF url = "invalid" THEN Settle([c EXCEPT !.readerClosed = FALSE], 0, "rejected")
    ELSE [c EXCEPT !.readerClosed = FALSE,
                   !.sockets = Append(@, NewSocket),
                   !.ws = Len(c.sockets) + 1,
                   !.connected = TRUE,
                   !.connects = Append(@, [state |-> "awaitOpen", timer |-> TRUE,
                                           helloTimer |-> FALSE])]

\* connect() after waitForServerHello
connectAfterHello(c, k) ==
    LET stated == IF Includes(c.roles, PLAYER) THEN sendPlayerState(c) ELSE c
    IN IF stated.thrown THEN Settle([stated EXCEPT !.thrown = FALSE], k, "rejected")
       ELSE LET timed == sendTimeMessage(stated)
            IN IF timed.thrown THEN Settle([timed EXCEPT !.thrown = FALSE], k, "rejected")
               ELSE Settle(scheduleTimeSync(timed), k, "resolved")

\* waitForServerHello(timeoutMs) inside connect() call k
waitForServerHello(c, k) ==
    IF c.serverInfo THEN connectAfterHello(c, k)
    ELSE [c EXCEPT !.serverHelloResolve = k,
                   !.connects[k].helloTimer = TRUE,
                   !.connects[k].state = "awaitHello"]

\* connect() call k after openPromise resolved
connectAfterOpen(c, k) ==
    LET cleared == [c EXCEPT !.connects[k].timer = FALSE]
        greeted == sendMessage(cleared, "client/hello")
    IN IF greeted.thrown THEN Settle([greeted EXCEPT !.thrown = FALSE], k, "rejected")
       ELSE waitForServerHello(greeted, k)

\* connect() call k after openPromise rejected
connectAfterError(c, k) == Settle([c EXCEPT !.connects[k].timer = FALSE], k, "rejected")

\* the timer of waitForServerHello in connect() call k
helloTimeout(c, k) ==
    LET fired == [c EXCEPT !.connects[k].helloTimer = FALSE]
    IN IF c.connects[k].state = "awaitHello" THEN Settle(fired, k, "rejected")
       ELSE fired

handleServerHello(c) ==
    LET k == c.serverHelloResolve
        informed == [c EXCEPT !.serverInfo = TRUE, !.serverHelloResolve = 0]
    IN IF k = 0 THEN informed
       ELSE LET cleared == [informed EXCEPT !.connects[k].helloTimer = FALSE]
            IN IF c.connects[k].state = "awaitHello"
               THEN connectAfterHello(cleared, k)
               ELSE cleared

\* new PCMFormat(sampleRate, channels, bitDepth) throws
PCMFormatThrows(player) ==
    \/ player.sample_rate <= 0
    \/ player.channels < 1 \/ player.channels > 2
    \/ player.bit_depth \notin {16, 24, 32}

\* new AudioFormat(player.codec, pcmFormat, codecHeader) without a codec header
AudioFormatOf(player) ==
    [codec |-> player.codec,
     pcm |-> [sampleRate |-> player.sample_rate, channels |-> player.channels,
              bitDepth |-> player.bit_depth]]

\* message.player is Undefined or the player object of the payload; the
\* exception of the PCMFormat constructor leaves with streamActive assigned
handleStreamStart(c, message) ==
    IF message.player = Undefined THEN c
    ELSE LET isFormatUpdate == c.streamActive /\ c.currentPlayer
             active == [c EXCEPT !.streamActive = TRUE]
         IN IF PCMFormatThrows(message.player.v) THEN [active EXCEPT !.thrown = TRUE]
            ELSE LET configured ==
                         [active EXCEPT !.currentAudioFormat = AudioFormatOf(message.player.v),
                                        !.currentPlayer = TRUE]
                 IN IF isFormatUpdate THEN configured
                    ELSE sendTimeMessage(
                             ClientEmit(configured, [k |-> "notify", name |-> "streamStart"]))

\* message.roles is Undefined or the array of the payload
handleStreamEnd(c, message) ==
    ClientEmit(IF message.roles = Undefined \/ Includes(message.roles.v, PLAYER)
               THEN [c EXCEPT !.streamActive = FALSE, !.currentPlayer = FALSE,
                              !.currentAudioFormat = Undefined]
               ELSE c,
               [k |-> "notify", name |-> "streamEnd"])

\* the number a small integer denotes
IntNumber(n) ==
    [neg |-> n < 0,
     mag |-> [i \in 1..64 |-> IF 64 - i > 30 THEN 0 ELSE (Abs(n) \div (2 ^ (64 - i))) % 2]]

\* payload: [client_transmitted, server_received, server_transmitted];
\* nowUs: the clock when the message is handled
handleServerTime(c, payload, nowUs) ==
    LET offset == RoundQuotient((payload.server_received - payload.client_transmitted)
                                + (payload.server_transmitted - nowUs), 2)
        delay == RoundQuotient((nowUs - payload.client_transmitted)
                               - (payload.server_transmitted - payload.server_received), 2)
    IN [c EXCEPT !.timeFilter = timeFilterUpdate(@, offset, delay, nowUs)]

computeSourceTimestamp(c, captureTimestampUs) ==
    computeServerTime(c.timeFilter, captureTimestampUs)

\* a rejected promise of an async method
Rejected(c, error) ==
    [ClientEmit(c, [k |-> "reject", error |-> error]) EXCEPT !.thrown = TRUE]

\* the client's sendBinary(payload)
sendBinaryPayload(c, payload) ==
    IF ~SocketIsOpen(c) THEN Rejected(c, "WebSocket is not connected")
    ELSE [ClientEmit(c, [k |-> "send", sock |-> c.ws, type |-> "binary",
                         payload |-> payload])
            EXCEPT !.sockets[c.ws].sent = NoteSent(@, "binary")]

\* a sender that takes the timestamp from the time filter whenever it is missing
sendSourceAudioChunk_NoSyncCheck(c, audioData, opts) ==
    IF ~isConnected(c) THEN Rejected(c, "Client is not connected")
    ELSE IF opts.serverTimestampUs = Undefined /\ opts.captureTimestampUs = Undefined
    THEN Rejected(c, "captureTimestampUs or serverTimestampUs must be provided")
    ELSE LET timestampUs ==
                 IF opts.serverTimestampUs # Undefined THEN opts.serverTimestampUs.v
                 ELSE computeSourceTimestamp(c, opts.captureTimestampUs.v).v
             header == packBinaryHeaderRaw(SOURCE_AUDIO_CHUNK, IntNumber(timestampUs))
         IN IF header.thrown THEN Rejected(c, "RangeError")
            ELSE sendBinaryPayload(c, header.buffer \o audioData)

\* opts: [captureTimestampUs, serverTimestampUs], each Undefined or Num(n)
sendSourceAudioChunk(c, audioData, opts) ==
    IF ~isConnected(c) THEN Rejected(c, "Client is not connected")
    ELSE IF opts.serverTimestampUs = Undefined /\ opts.captureTimestampUs = Undefined
    THEN Rejected(c, "captureTimestampUs or serverTimestampUs must be provided")
    ELSE IF opts.serverTimestampUs = Undefined /\ ~isSynchronized(c.timeFilter)
    THEN Rejected(c, "time sync not ready; provide serverTimestampUs explicitly")
    ELSE LET timestampUs ==
                 IF opts.serverTimestampUs # Undefined THEN opts.serverTimestampUs.v
                 ELSE computeSourceTimestamp(c, opts.captureTimestampUs.v).v
             header == packBinaryHeaderRaw(SOURCE_AUDIO_CHUNK, IntNumber(timestampUs))
         IN IF header.thrown THEN Rejected(c, "RangeError")
            ELSE sendBinaryPayload(c, header.buffer \o audioData)

\* message: the parsed message, or [parsed |-> FALSE]; a server/time message
\* carries the clock reading of its handler as nowUs
handleJsonMessage(c, message) ==
    IF ~message.parsed THEN c
    ELSE IF message.type = "server/hello" THEN handleServerHello(c)
    ELSE IF message.type = "stream/start"
    THEN [handleStreamStart(c, message) EXCEPT !.thrown = FALSE]
    ELSE IF message.type = "stream/end" THEN handleStreamEnd(c, message)
    ELSE IF message.type = "server/time"
    THEN handleServerTime(c, message.payload, message.nowUs)
    ELSE c

handleAudioChunk(c, timestampUs, payload) ==
    IF c.currentAudioFormat = Undefined THEN c
    ELSE ClientEmit(c, [k |-> "notify", name |-> "audioChunk",
                        timestampUs |-> timestampUs, payload |-> payload,
                        format |-> c.currentAudioFormat])

\* a dispatch that forwards every audio chunk it can decode
handleBinaryMessage_Ungated(c, payload) ==
    LET header == unpackBinaryHeader(payload)
    IN IF header.thrown THEN c
       ELSE IF header.messageType = AUDIO_CHUNK
       THEN ClientEmit(c, [k |-> "notify", name |-> "audioChunk",
                           timestampUs |-> header.timestampUs,
                           payload |-> SubSeq(payload, BINARY_HEADER_SIZE + 1, Len(payload)),
                           format |-> c.currentAudioFormat])
       ELSE c

\* payload: the bytes of the frame
handleBinaryMessage(c, payload) ==
    LET header == unpackBinaryHeader(payload)
    IN IF header.thrown THEN c
       ELSE IF ~c.streamActive THEN c
       ELSE IF header.messageType = AUDIO_CHUNK
       THEN handleAudioChunk(c, header.timestampUs,
                             SubSeq(payload, BINARY_HEADER_SIZE + 1, Len(payload)))
       ELSE c

\* data: [kind |-> "string", message] or [kind |-> "buffer", buf]
handleWsMessage(c, data) ==
    IF data.kind = "string" THEN handleJsonMessage(c, data.message)
    ELSE handleBinaryMessage(c, data.buf)

\* the 'open' event of socket s
onSocketOpen(c, s) ==
    LET opened == [c EXCEPT !.sockets[s].readyState = "OPEN"]
    IN IF c.sockets[s].listeners /\ c.connects[s].state = "awaitOpen"
       THEN connectAfterOpen(opened, s)
       ELSE opened

\* the 'close' event of socket s: the listener of connect(), then the one of
\* a waiting disconnect()
onSocketClose(c, s) ==
    LET closed == [c EXCEPT !.sockets[s].readyState = "CLOSED"]
    IN IF ~c.sockets[s].listeners THEN closed
       ELSE LET left == disconnect(closed)
            IN IF c.sockets[s].closeWaiter THEN disconnectResumes(left, s)
               ELSE left

\* the 'error' event of socket s, which the 'close' event follows; without a
\* listener the event is an uncaught exception.  The 'close' event reaches
\* the listeners that the handling of 'error' has left on the socket.
onSocketError(c, s) ==
    IF ~c.sockets[s].listeners
    THEN ClientEmit([c EXCEPT !.sockets[s].readyState = "CLOSED"],
                    [k |-> "notify", name |-> "uncaughtError"])
    ELSE LET closing == [c EXCEPT !.sockets[s].readyState = "CLOSING"]
             failed == IF c.connects[s].state = "awaitOpen"
                       THEN connectAfterError(closing, s) ELSE closing
         IN onSocketClose(disconnect(failed), s)

\* the timer of connect() call k
connectTimeout(c, k) == disconnect([c EXCEPT !.connects[k].timer = FALSE])

-----------------------------------------------------------------------------
(* The state machine *)

\* the world a handler runs in; emitted starts empty for every handler
World ==
    [session |-> session, ws |-> ws, hooksByClientId |-> hooksByClientId,
     sessionsBySocket |-> sessionsBySocket, pendingRetries |-> pendingRetries,
     emitted |-> <<>>, written |-> written, hookCalls |-> hookCalls,
     helloRejected |-> helloRejected, pcm |-> pcm,
     playerStartWritten |-> playerStartWritten]

Effects(w) ==
    /\ session' = w.session
    /\ ws' = w.ws
    /\ hooksByClientId' = w.hooksByClientId
    /\ sessionsBySocket' = w.sessionsBySocket
    /\ pendingRetries' = w.pendingRetries
    /\ emitted' = w.emitted
    /\ written' = w.written
    /\ hookCalls' = w.hookCalls
    /\ helloRejected' = w.helloRejected
    /\ pcm' = w.pcm
    /\ playerStartWritten' = w.playerStartWritten
    /\ server' = server
    /\ registry' = registry
    /\ client' = client
    /\ filters' = filters
    /\ wire' = wire

\* a handler that is not fed from the inbox
Commit(w) == Effects(w) /\ inbox' = inbox

\* a fresh SendspinSession, as constructed by SendspinCore.handleConnection
NewSession ==
    [ready |-> FALSE, clientId |-> <<>>, clientName |-> [t |-> "null"],
     roles |-> <<>>,
     artworkChannels |-> <<>>,
     initialStateReceived |-> FALSE, initialStateTimer |-> "null",
     initialStateRequired |-> FALSE, identified |-> FALSE,
     hooks |-> EmptyHooks, hooksAttached |-> FALSE,
     activeStream |-> FALSE, streamFormat |-> DefaultStreamFormat,
     backpressureDrops |-> 0, lastBackpressureBytes |-> 0, backpressureEvents |-> 0]

\* a SendspinServer after its constructor: wss says that a WebSocketServer is
\* listening, clients is connectedClients, sockets are the WebSockets of its
\* connections in the order they appeared
NewServer == [wss |-> FALSE, clients |-> {}, sockets |-> <<>>, emitted |-> <<>>]

\* the server side after SendspinCore.handleConnection
ServerInit ==
    /\ session = NewSession
    /\ ws = [readyState |-> "OPEN", bufferedAmount |-> 0]
    /\ hooksByClientId = {}
    /\ sessionsBySocket = {"ws"}
    /\ pendingRetries = 0
    /\ emitted = <<>>
    /\ written = <<>>
    /\ hookCalls = [n \in LifecycleHooks |-> 0]
    /\ helloRejected = FALSE
    /\ pcm = [calls |-> 0, written |-> 0]
    /\ playerStartWritten = [ever |-> FALSE, live |-> FALSE]
    /\ server = NewServer
    /\ registry = [sessions |-> <<>>, unregistered |-> FALSE, connections |-> 0]
    /\ inbox = <<>>

\* no call has been made on the stand-alone time filter, no header packed
NewFilters == [subject |-> NewTimeFilter, fresh |-> NewTimeFilter, log |-> <<>>]

NoHeader == [phase |-> "none"]

Unused == filters = NewFilters /\ wire = NoHeader

Init == ServerInit /\ client = NewClient /\ Unused

\* the peer can deliver frames until the close event; they reach the session
\* through the listeners of SendspinCore.handleConnection
Connected == ws.readyState # "CLOSED"

OnTextMessage(msgs) ==
    /\ Connected
    /\ \E msg \in msgs : Commit(onTextMessage(World, msg))

\* the peer writes a client/hello while the handshake is still open
PeerSendsHello(msgs) ==
    /\ Connected
    /\ ~session.ready
    /\ inbox = <<>>
    /\ \E msg \in msgs : inbox' = <<msg>>
    /\ UNCHANGED <<session, ws, hooksByClientId, sessionsBySocket, pendingRetries,
                   emitted, written, hookCalls, helloRejected, pcm, registry,
                   client, filters, wire, playerStartWritten, server>>

\* the frame at the head of the inbox reaches ws.on('message')
DeliverText ==
    /\ Connected
    /\ inbox # <<>>
    /\ Effects(onTextMessage(World, Head(inbox)))
    /\ inbox' = Tail(inbox)

OnBinaryMessage(bufs) ==
    /\ Connected
    /\ \E buf \in bufs : Commit(handleBinary(World, buf))

OnClose ==
    /\ Connected
    /\ Commit(onClose(World))

RegisterHooks ==
    \E clientId \in ClientIds, hooks \in UserHooks :
        Commit(registerHooks(World, clientId, hooks))

UnregisterHooks ==
    \E clientId \in ClientIds : Commit(unregisterHooks(World, clientId))

SetHooks ==
    \E hooks \in UserHooks \cup {EmptyHooks} : Commit(setHooks(World, hooks))

InitialStateTimerFires ==
    /\ session.initialStateTimer = "pending"
    /\ Commit(initialStateTimeout(World))

PcmRetryFires ==
    /\ pendingRetries > 0
    /\ Commit(pcmRetry(World))

SetBufferedAmount ==
    /\ Connected
    /\ \E n \in {0, maxBufferedSend, maxBufferedSend + 1} :
        /\ n # ws.bufferedAmount
        /\ Commit([World EXCEPT !.ws.bufferedAmount = n])

SendStreamStart ==
    \E format \in {<<>>, [codec |-> "flac"]} : Commit(sendStreamStart(World, format))

SendStreamClear == \E roles \in {<<>>, <<PLAYER>>} : Commit(sendStreamClear(World, roles))

SendStreamEnd == \E roles \in {<<>>, <<PLAYER>>} : Commit(sendStreamEnd(World, roles))

SendPcmAudioFrame ==
    /\ pendingRetries < MaxPendingRetries
    /\ pcm.calls < MaxPcmCalls
    /\ Commit(sendPcmAudioFrame(World))

SendServerCommand ==
    \E payload \in {{"player"}, {"source"}} : Commit(sendServerCommand(World, payload))

SendGroupUpdate ==
    \E playbackState \in {"playing", "paused", "stopped"} :
        Commit(sendGroupUpdate(World, playbackState))

SendMetadata == Commit(sendMetadata(World))

SendControllerState == Commit(sendControllerState(World))

OneChannel == <<[source |-> "album", format |-> "jpeg", width |-> 800, height |-> 800]>>

SendArtworkStreamStart == Commit(sendArtworkStreamStart(World, OneChannel))

SendArtwork == \E channel \in 0..3 : Commit(sendArtwork(World, channel))

SendVisualizerStreamStart == Commit(sendVisualizerStreamStart(World))

SendVisualizerFrame == Commit(sendVisualizerFrame(World))

-----------------------------------------------------------------------------
(* Inputs *)

Unknown   == <<"foo", "@", "v1">>
PlayerV2  == <<"player", "@", "v2">>
Private   == <<"_", "ext", "@", "v1">>

Hello(version, client_id, supported_roles, support) ==
    [parsed |-> TRUE, type |-> "client/hello",
     payload |-> Obj([version |-> version, client_id |-> client_id,
                      supported_roles |-> supported_roles] @@ support)]

Msg(type, payload) == [parsed |-> TRUE, type |-> type, payload |-> payload]

Malformed == [parsed |-> FALSE]

\* the text "null": JSON.parse succeeds and returns null
JsonNull == [parsed |-> TRUE, value |-> "null"]

AnyObject == Obj(<<>>)

FlacFormat ==
    [codec |-> "flac", sample_rate |-> Num(44100), channels |-> Num(2), bit_depth |-> Num(24)]
BadFormat ==
    [codec |-> "mp3", sample_rate |-> Num(44100), channels |-> Num(2), bit_depth |-> Num(16)]

PlayerSupports ==
    { <<>>,
      "player@v1_support" :> AnyObject,
      "player@v1_support" :> Obj([supported_formats |-> Arr(<<BadFormat, FlacFormat>>)]),
      "player_support" :> AnyObject,
      ("player@v1_support" :> JFalse) @@ ("player_support" :> AnyObject) }

ArtworkSupports ==
    { <<>>,
      "artwork@v1_support" :> AnyObject,
      "artwork@v1_support" :>
          Obj([channels |-> Arr(<<[source |-> "artist", format |-> "gif",
                                   media_width |-> Num(300), media_height |-> Undefined]>>)]) }

VisualizerSupports == { <<>>, "visualizer@v1_support" :> AnyObject }

SourceSupports == { <<>>, "source_support" :> AnyObject }

Supports ==
    { p @@ a @@ v @@ s : p \in PlayerSupports, a \in ArtworkSupports,
                         v \in VisualizerSupports, s \in SourceSupports }

Versions == {Num(1), Num(2), Str(<<"1">>), Undefined}

RawClientIds == {Str(<<" ", "c1", " ">>), Str(<<" ">>), Undefined}

RoleLists ==
    { <<>>, <<PLAYER>>, <<CONTROLLER, METADATA>>, <<PLAYER, ARTWORK>>,
      <<VISUALIZER, SOURCE>>, <<Unknown>>, <<Unknown, CONTROLLER>>,
      <<PLAYER, PlayerV2, Private>> }

FullSupport ==
    ("player@v1_support" :> Obj([supported_formats |-> Arr(<<BadFormat, FlacFormat>>)]))
    @@ ("artwork@v1_support" :>
          Obj([channels |-> Arr(<<[source |-> "artist", format |-> "gif",
                                   media_width |-> Num(300), media_height |-> Undefined]>>)]))
    @@ ("visualizer@v1_support" :> AnyObject)
    @@ ("source_support" :> AnyObject)

HelloSet(versions, clientIds, roleLists, supports) ==
    { Hello(v, c, Arr(r), s) : v \in versions, c \in clientIds,
                               r \in roleLists, s \in supports }

\* the hellos of the long-running specifications
HelloMessages ==
    HelloSet({Num(1), Num(2)}, {Str(<<" ", "c1", " ">>), Str(<<" ">>)},
             RoleLists \ {<<PLAYER, PlayerV2, Private>>},
             {<<>>, "player_support" :> AnyObject, FullSupport})

RuntimeMessages ==
    { Msg("client/time", Obj([client_transmitted |-> Num(1)])),
      Msg("client/state", Obj(<<>>)),
      Msg("client/state", Obj([source |-> Obj([state |-> Str(<<"streaming">>)])])),
      Msg("client/command", Obj([controller |-> Obj([command |-> Str(<<"play">>)])])),
      Msg("client/command", Obj([source |-> Obj([command |-> Str(<<"started">>)])])),
      Msg("client/goodbye", Obj([reason |-> Str(<<"shutdown">>)])),
      Msg("client/goodbye", Obj(<<>>)),
      Msg("stream/request-format", Obj(<<>>)),
      Msg("stream/request-format", Obj([player |-> Obj([codec |-> Str("opus")])])),
      Msg("stream/request-format",
          Obj([player |-> Obj([codec |-> Str("mp3"), sample_rate |-> Num(96000)])])),
      Msg("stream/request-format",
          Obj([artwork |-> Obj([channel |-> Num(0), format |-> Str("png")])])),
      Msg("stream/request-format", Obj([artwork |-> Obj([channel |-> Num(7)])])),
      Msg("x/unknown", Undefined) }

TextMessages == {Malformed, JsonNull} \cup HelloMessages \cup RuntimeMessages

Buffers ==
    { [byteLength |-> BINARY_HEADER_SIZE - 1, messageType |-> SOURCE_AUDIO_CHUNK],
      [byteLength |-> BINARY_HEADER_SIZE, messageType |-> SOURCE_AUDIO_CHUNK],
      [byteLength |-> BINARY_HEADER_SIZE + 1, messageType |-> AUDIO_CHUNK] }

-----------------------------------------------------------------------------
(* Specifications *)

\* handshake, identification and hooks
Next ==
    \/ OnTextMessage(TextMessages)
    \/ OnBinaryMessage(Buffers)
    \/ OnClose
    \/ RegisterHooks
    \/ UnregisterHooks
    \/ SetHooks
    \/ InitialStateTimerFires
    \/ SendGroupUpdate

Spec == Init /\ [][Next]_vars

\* every supported_roles list of at most MaxRoles entries
RoleAlphabet == serverSupported \cup {Unknown, PlayerV2, Private, NonString, <<"player">>}

AllRoleLists == UNION { [1..n -> RoleAlphabet] : n \in 0..MaxRoles }

RoleHelloMessages ==
    HelloSet({Num(1)}, {Str(<<"c1">>)}, AllRoleLists, {FullSupport})

ValidationRoleLists ==
    { <<>>, <<PLAYER, ARTWORK, VISUALIZER, SOURCE>>, <<SOURCE, VISUALIZER, ARTWORK>>,
      <<CONTROLLER, Unknown>>, <<PlayerV2, ARTWORK>> }

ValidationHelloMessages ==
    HelloSet(Versions, RawClientIds, ValidationRoleLists, Supports)
    \cup {Msg("client/hello", Undefined)}

\* the handshake alone, over every combination of the validated payload fields
NextHello ==
    \/ PeerSendsHello(ValidationHelloMessages)
    \/ DeliverText

SpecHello == Init /\ [][NextHello]_vars

\* the handshake alone, over every supported_roles list
NextRoles ==
    \/ PeerSendsHello(RoleHelloMessages)
    \/ DeliverText

SpecRoles == Init /\ [][NextRoles]_vars

\* the hellos and runtime messages of the outbound specification
SendSetupMessages ==
    HelloSet({Num(1), Num(2)}, {Str(<<"c1">>)},
             {<<PLAYER>>, <<CONTROLLER, METADATA>>, <<PLAYER, ARTWORK>>,
              <<VISUALIZER, SOURCE>>},
             {FullSupport})
    \cup { Msg("client/state", Obj(<<>>)),
           Msg("client/goodbye", Obj(<<>>)) }

\* the outbound operations, the transport's buffer and the deferred PCM retry
NextSend ==
    \/ OnTextMessage(SendSetupMessages)
    \/ OnClose
    \/ SetBufferedAmount
    \/ PcmRetryFires
    \/ SendStreamStart
    \/ SendStreamClear
    \/ SendStreamEnd
    \/ SendPcmAudioFrame
    \/ SendServerCommand
    \/ SendGroupUpdate
    \/ SendMetadata
    \/ SendControllerState
    \/ SendArtworkStreamStart
    \/ SendArtwork
    \/ SendVisualizerStreamStart
    \/ SendVisualizerFrame

SpecSend == Init /\ [][NextSend]_vars

-----------------------------------------------------------------------------
(* The stream format of a session: hellos with format lists, and format    *)
(* requests                                                                *)

ZeroRateFormat ==
    [codec |-> "opus", sample_rate |-> Num(0), channels |-> Num(2), bit_depth |-> Num(16)]

OpusFormat ==
    [codec |-> "opus", sample_rate |-> Num(48000), channels |-> Num(1), bit_depth |-> Num(16)]

FormatSupports ==
    {<<>>, FullSupport,
     "player@v1_support" :> Obj([supported_formats |-> Arr(<<ZeroRateFormat, OpusFormat>>)]),
     "player@v1_support" :> Obj([supported_formats |-> Arr(<<BadFormat, ZeroRateFormat>>)])}

FormatRequest(player) == Msg("stream/request-format", Obj([player |-> Obj(player)]))

\* requests that name a codec the server does not know
UnknownCodecRequests ==
    {FormatRequest([codec |-> Str("mp3")]),
     FormatRequest([codec |-> Str("mp3"), sample_rate |-> Num(96000)])}

FormatRequests ==
    UnknownCodecRequests
    \cup {FormatRequest([codec |-> Str("opus")]),
          FormatRequest([codec |-> Str("flac"), bit_depth |-> Num(24)]),
          FormatRequest([sample_rate |-> Num(0)]),
          FormatRequest([channels |-> Num(1)]),
          FormatRequest([channels |-> Num(-1), bit_depth |-> Str("16")])}

FormatMessages ==
    HelloSet({Num(1)}, {Str(<<"c1">>)}, {<<PLAYER>>, <<CONTROLLER, METADATA>>},
             FormatSupports)
    \cup FormatRequests
    \cup {Msg("client/state", Obj(<<>>))}

NextFormat == OnTextMessage(FormatMessages) \/ OnClose

SpecFormat == Init /\ [][NextFormat]_vars

-----------------------------------------------------------------------------
(* The artwork channels of a session: hellos that negotiate them, and      *)
(* format requests with an artwork section                                 *)

ArtworkChannel(source, format) ==
    [source |-> source, format |-> format, media_width |-> Num(300),
     media_height |-> Undefined]

TwoChannelSupport ==
    ("player@v1_support" :> AnyObject)
    @@ ("artwork@v1_support" :>
          Obj([channels |-> Arr(<<ArtworkChannel("artist", "png"),
                                  ArtworkChannel("none", "bmp")>>)]))

ArtworkSections ==
    {[channel |-> Num(0), format |-> Str("png")],
     [channel |-> Num(1), media_width |-> Num(500)],
     [channel |-> Num(-1), source |-> Str("none")],
     [channel |-> Num(7)]}

PlayerSections == {[codec |-> Str("opus")]}

\* requests with an artwork section, alone and next to a player section
ArtworkRequests ==
    {Msg("stream/request-format", Obj([artwork |-> Obj(a)])) : a \in ArtworkSections}
    \cup {Msg("stream/request-format", Obj([player |-> Obj(p), artwork |-> Obj(a)])) :
             p \in PlayerSections, a \in ArtworkSections}

ArtworkMessages ==
    HelloSet({Num(1)}, {Str(<<"c1">>)}, {<<ARTWORK>>, <<PLAYER, ARTWORK>>, <<PLAYER>>},
             {FullSupport, TwoChannelSupport})
    \cup ArtworkRequests

NextArtwork == OnTextMessage(ArtworkMessages) \/ OnClose

SpecArtwork == Init /\ [][NextArtwork]_vars

-----------------------------------------------------------------------------
(* SendspinCore with several sockets.  registry.sessions is the Map        *)
(* sessionsBySocket in insertion order; each entry holds the session, its   *)
(* transport and the connectionReason it was constructed with.              *)

ClientC2 == <<"c2">>

PLAYBACK  == "playback"
DISCOVERY == "discovery"

\* a scan that returns the first session with the client id
RECURSIVE getSessionOf_FirstMatch(_, _, _, _, _)
getSessionOf_FirstMatch(sessions, clientId, i, preferred, fallback) ==
    IF i > Len(sessions) THEN fallback
    ELSE IF sessions[i].session.clientId = clientId /\ fallback = 0
    THEN getSessionOf_FirstMatch(sessions, clientId, i + 1, preferred, i)
    ELSE getSessionOf_FirstMatch(sessions, clientId, i + 1, preferred, fallback)

\* SendspinCore.getSession: the loop over sessionsBySocket.values() from entry
\* i on; the result is the index of the session returned, 0 for undefined
RECURSIVE getSessionOf(_, _, _, _, _)
getSessionOf(sessions, clientId, i, preferred, fallback) ==
    IF i > Len(sessions)
    THEN IF preferred # 0 THEN preferred ELSE fallback
    ELSE IF sessions[i].session.clientId = clientId
    THEN IF sessions[i].connectionReason = PLAYBACK /\ preferred = 0
         THEN getSessionOf(sessions, clientId, i + 1, i, fallback)
         ELSE IF fallback = 0
         THEN getSessionOf(sessions, clientId, i + 1, preferred, i)
         ELSE getSessionOf(sessions, clientId, i + 1, preferred, fallback)
    ELSE getSessionOf(sessions, clientId, i + 1, preferred, fallback)

\* the world the handlers of the session at entry i run in
PeerWorld(i) ==
    [World EXCEPT !.session = registry.sessions[i].session,
                  !.ws = registry.sessions[i].ws,
                  !.sessionsBySocket = {}]

\* reg with the session and transport of entry i taken from w
WithPeer(reg, i, w) ==
    [reg EXCEPT !.sessions[i] = [@ EXCEPT !.session = w.session, !.ws = w.ws]]

RegistryEffects(reg, w) ==
    /\ registry' = reg
    /\ hooksByClientId' = w.hooksByClientId
    /\ emitted' = w.emitted
    /\ hookCalls' = w.hookCalls
    /\ UNCHANGED <<session, ws, sessionsBySocket, pendingRetries, written,
                   helloRejected, pcm, playerStartWritten, client, inbox, filters, wire,
                   server>>

RemoveAt(seq, i) == SubSeq(seq, 1, i - 1) \o SubSeq(seq, i + 1, Len(seq))

\* SendspinCore.handleConnection(ws, req, connectionReason)
HandleConnection ==
    /\ Len(registry.sessions) < MaxSessions
    /\ registry.connections < MaxConnections
    /\ \E reason \in {PLAYBACK, DISCOVERY} :
          RegistryEffects(
              [registry EXCEPT !.sessions = Append(@, [session |-> NewSession,
                                                       ws |-> [readyState |-> "OPEN",
                                                               bufferedAmount |-> 0],
                                                       connectionReason |-> reason]),
                               !.connections = @ + 1],
              World)

\* the hellos and runtime messages of the registry with several sockets
RegistryMessages ==
    HelloSet({Num(1)}, {Str(ClientC1), Str(ClientC2)},
             {<<>>, <<CONTROLLER>>}, {<<>>})
    \cup { Msg("client/command", Obj([controller |-> Obj([command |-> Str(<<"play">>)])])) }

\* ws.on('message') of the socket at entry i
RegistryText ==
    \E i \in 1..Len(registry.sessions), msg \in RegistryMessages :
        LET w == onTextMessage(PeerWorld(i), msg)
        IN RegistryEffects(WithPeer(registry, i, w), w)

\* ws.on('close') of the socket at entry i
RegistryClose ==
    \E i \in 1..Len(registry.sessions) :
        LET w == destroy([PeerWorld(i) EXCEPT !.ws.readyState = "CLOSED"])
        IN RegistryEffects([registry EXCEPT !.sessions = RemoveAt(@, i)], w)

\* SendspinCore.registerHooks(ClientC1, hooks)
RegistryRegisterHooks ==
    LET stored == MapSet(hooksByClientId, ClientC1, ObserverHooks)
        i == getSessionOf(registry.sessions, ClientC1, 1, 0, 0)
        reg == [registry EXCEPT !.unregistered = FALSE]
    IN IF i = 0
       THEN RegistryEffects(reg, [World EXCEPT !.hooksByClientId = stored])
       ELSE LET w == setHooks([PeerWorld(i) EXCEPT !.hooksByClientId = stored],
                              ObserverHooks)
            IN RegistryEffects(WithPeer(reg, i, w), w)

\* SendspinCore.unregisterHooks(ClientC1)
RegistryUnregisterHooks ==
    LET removed == MapDelete(hooksByClientId, ClientC1)
        i == getSessionOf(registry.sessions, ClientC1, 1, 0, 0)
        reg == [registry EXCEPT !.unregistered = TRUE]
    IN IF i = 0
       THEN RegistryEffects(reg, [World EXCEPT !.hooksByClientId = removed])
       ELSE LET w == setHooks([PeerWorld(i) EXCEPT !.hooksByClientId = removed],
                              EmptyHooks)
            IN RegistryEffects(WithPeer(reg, i, w), w)

NextRegistry ==
    \/ HandleConnection
    \/ RegistryText
    \/ RegistryClose
    \/ RegistryRegisterHooks
    \/ RegistryUnregisterHooks

SpecRegistry == Init /\ [][NextRegistry]_vars

\* the hellos and runtime messages of the hook rendezvous
RendezvousMessages ==
    HelloSet({Num(1), Num(2)}, {Str(<<"c1">>)},
             {<<>>, <<PLAYER>>, <<CONTROLLER>>, <<Unknown, CONTROLLER>>,
              <<PLAYER, Unknown, Private>>, <<Unknown>>},
             {<<>>, FullSupport})
    \cup { Msg("client/state", Obj(<<>>)),
           Msg("client/time", Obj([client_transmitted |-> Num(1)])),
           JsonNull }

\* core.registerHooks(id, hooks) with one hook object that defines every callback
RegisterObserverHooks == Commit(registerHooks(World, ClientC1, ObserverHooks))

\* one connection and one registration of hooks for its client id, in any order
NextRendezvous ==
    \/ OnTextMessage(RendezvousMessages)
    \/ RegisterObserverHooks
    \/ InitialStateTimerFires
    \/ OnClose

SpecRendezvous == Init /\ [][NextRendezvous]_vars

-----------------------------------------------------------------------------
(* The client's state machine *)

\* the roles a client is constructed with
ClientRoleLists == {<<PLAYER>>, <<CONTROLLER>>}

Urls == {"valid", "invalid"}

StreamStartWith(player) == [parsed |-> TRUE, type |-> "stream/start", player |-> player]

StreamEndWith(roles) == [parsed |-> TRUE, type |-> "stream/end", roles |-> roles]

PlayerOf(sampleRate, channels) ==
    Obj([codec |-> "pcm", sample_rate |-> sampleRate, channels |-> channels,
         bit_depth |-> 16])

\* player objects PCMFormat accepts, and one it rejects
ValidPlayers == {PlayerOf(48000, 2), PlayerOf(44100, 2)}
SurroundPlayer == PlayerOf(48000, 6)

\* binary frames: an audio chunk with timestamp 0x0102 and two payload
\* bytes, an artwork frame, and a frame shorter than the header
ClientBuffers ==
    {<<AUDIO_CHUNK, 0, 0, 0, 0, 0, 0, 1, 2, 7, 9>>,
     <<ARTWORK_CHANNEL_0, 0, 0, 0, 0, 0, 0, 0, 5, 7>>,
     <<AUDIO_CHUNK, 0, 0>>}

\* what the 'message' event hands to handleWsMessage
WsData ==
    {[kind |-> "string", message |-> m] :
        m \in {[parsed |-> FALSE],
               [parsed |-> TRUE, type |-> "server/hello"],
               [parsed |-> TRUE, type |-> "group/update"],
               StreamStartWith(Undefined), StreamStartWith(SurroundPlayer),
               StreamEndWith(Undefined), StreamEndWith(Arr(<<ARTWORK>>)),
               StreamEndWith(Arr(<<PLAYER>>))}
              \cup {StreamStartWith(player) : player \in ValidPlayers}}
    \cup {[kind |-> "buffer", buf |-> buf] : buf \in ClientBuffers}

IsServerHello(data) ==
    data.kind = "string" /\ data.message.parsed /\ data.message.type = "server/hello"

InitClient ==
    ServerInit /\ client \in {NewClientOf(roles) : roles \in ClientRoleLists} /\ Unused

ClientCommit(c) ==
    /\ client' = [c EXCEPT !.emitted = <<>>]
    /\ emitted' = c.emitted
    /\ UNCHANGED <<session, ws, hooksByClientId, sessionsBySocket, pendingRetries,
                   written, hookCalls, helloRejected, pcm, registry, inbox, filters,
                   wire, playerStartWritten, server>>

SocketIds == 1..Len(client.sockets)

\* the caller calls connect(url)
Connect ==
    \E url \in Urls :
        /\ isConnected(client) \/ url = "invalid" \/ Len(client.sockets) < MaxClientSockets
        /\ ClientCommit(connect(client, url))

\* the caller calls disconnect()
Disconnect == ClientCommit(disconnect(client))

SocketOpens ==
    \E s \in SocketIds :
        /\ client.sockets[s].readyState = "CONNECTING"
        /\ ClientCommit(onSocketOpen(client, s))

SocketErrors ==
    \E s \in SocketIds :
        /\ client.sockets[s].readyState \in {"CONNECTING", "OPEN"}
        /\ ClientCommit(onSocketError(client, s))

SocketCloses ==
    \E s \in SocketIds :
        /\ client.sockets[s].readyState \in {"OPEN", "CLOSING"}
        /\ ClientCommit(onSocketClose(client, s))

\* the server's frames reach the listener until the socket is closed
SocketMessageOf(s, data) ==
    /\ s \in SocketIds
    /\ client.sockets[s].readyState \in {"OPEN", "CLOSING"}
    /\ client.sockets[s].listeners
    /\ ClientCommit([handleWsMessage(client, data) EXCEPT
                       !.sockets[s].heardHello = @ \/ IsServerHello(data)])

SocketMessage == \E s \in 1..MaxClientSockets, data \in WsData : SocketMessageOf(s, data)

ConnectTimerFires(k) ==
    /\ k \in 1..Len(client.connects)
    /\ client.connects[k].timer
    /\ ClientCommit(connectTimeout(client, k))

HelloTimerFires(k) ==
    /\ k \in 1..Len(client.connects)
    /\ client.connects[k].helloTimer
    /\ ClientCommit(helloTimeout(client, k))

\* the 100 ms timer of a disconnect() that waits for the close of socket s
DisconnectTimerFires ==
    \E s \in SocketIds :
        /\ client.sockets[s].closeWaiter
        /\ ClientCommit(disconnectResumes(client, s))

TimeSyncTimerFires ==
    /\ client.timeSyncTimeouts > 0
    /\ ClientCommit(timeSyncCallback(client))

NextClient ==
    \/ Connect
    \/ Disconnect
    \/ SocketOpens
    \/ SocketErrors
    \/ SocketCloses
    \/ SocketMessage
    \/ \E k \in 1..MaxClientSockets : ConnectTimerFires(k)
    \/ \E k \in 1..MaxClientSockets : HelloTimerFires(k)
    \/ DisconnectTimerFires
    \/ TimeSyncTimerFires

SpecClient == InitClient /\ [][NextClient]_vars

\* a timer that stays armed fires
SpecClientLive ==
    /\ SpecClient
    /\ \A k \in 1..MaxClientSockets :
          WF_vars(ConnectTimerFires(k)) /\ WF_vars(HelloTimerFires(k))


-----------------------------------------------------------------------------
(* A source client: time synchronisation and the upload of captured audio  *)

ServerTimeWith(payload, nowUs) ==
    [parsed |-> TRUE, type |-> "server/time", payload |-> payload, nowUs |-> nowUs]

ServerTimePayloads ==
    {[client_transmitted |-> 900, server_received |-> 1050, server_transmitted |-> 1060],
     [client_transmitted |-> 1900, server_received |-> 2080, server_transmitted |-> 2090]}

ClockReadings == {1000, 2000}

SourceWsData ==
    {[kind |-> "string", message |-> m] :
        m \in {[parsed |-> TRUE, type |-> "server/hello"]}
              \cup {ServerTimeWith(payload, nowUs) :
                       payload \in ServerTimePayloads, nowUs \in ClockReadings}}

SourceOpts ==
    [captureTimestampUs : {Undefined, Num(5000)},
     serverTimestampUs : {Undefined, Num(7000), Num(-2)}]

AudioData == {<<>>, <<1, 2>>}

\* the server answers client/time until the filter is synchronized: from
\* then on its estimates are results of the Kalman step
InitSource == ServerInit /\ client = NewClientOf(<<SOURCE>>) /\ Unused

SourceMessage ==
    \E s \in 1..MaxClientSockets, data \in SourceWsData :
        /\ IsServerHello(data) \/ ~isSynchronized(client.timeFilter)
        /\ SocketMessageOf(s, data)

\* the caller calls sendSourceAudioChunk(audioData, opts)
SendSourceAudioChunkOf(audioData, opts) ==
    ClientCommit([sendSourceAudioChunk(client, audioData, opts) EXCEPT !.thrown = FALSE])

SendSourceAudioChunk ==
    \E audioData \in AudioData, opts \in SourceOpts :
        SendSourceAudioChunkOf(audioData, opts)

NextSource ==
    \/ Connect
    \/ Disconnect
    \/ SocketOpens
    \/ SourceMessage
    \/ SendSourceAudioChunk

SpecSource == InitSource /\ [][NextSource]_vars

-----------------------------------------------------------------------------
(* The time filter on its own: a filter, and a fresh filter that has been  *)
(* given the same updates since the filter was last reset                  *)

\* calls made on the filter in one behaviour
MaxFilterCalls == 4

Measurements == {100, 120}
MaxErrors == {10}
TimesAdded == {0, 1000000, 2000000}

Call(op, measurement, maxError, timeAdded) ==
    [op |-> op, measurement |-> measurement, maxError |-> maxError,
     timeAdded |-> timeAdded]

FiltersUnchanged ==
    UNCHANGED <<session, ws, hooksByClientId, sessionsBySocket, pendingRetries, emitted,
                written, hookCalls, helloRejected, pcm, registry, client, inbox, wire,
                playerStartWritten, server>>

\* filter.update(measurement, maxError, timeAdded)
FilterUpdateOf(measurement, maxError, timeAdded) ==
    /\ Len(filters.log) < MaxFilterCalls
    /\ filters' = [subject |-> timeFilterUpdate(filters.subject, measurement, maxError,
                                                timeAdded),
                   fresh |-> timeFilterUpdate(filters.fresh, measurement, maxError,
                                              timeAdded),
                   log |-> Append(filters.log,
                                  Call("update", measurement, maxError, timeAdded))]
    /\ FiltersUnchanged

FilterUpdate ==
    \E measurement \in Measurements, maxError \in MaxErrors, timeAdded \in TimesAdded :
        FilterUpdateOf(measurement, maxError, timeAdded)

\* filter.reset(); the comparison starts again from a new filter
FilterReset ==
    /\ Len(filters.log) < MaxFilterCalls
    /\ filters' = [subject |-> timeFilterReset(filters.subject),
                   fresh |-> NewTimeFilter,
                   log |-> Append(filters.log, Call("reset", 0, 0, 0))]
    /\ FiltersUnchanged

NextFilter == FilterUpdate \/ FilterReset

SpecFilter == Init /\ [][NextFilter]_vars

-----------------------------------------------------------------------------
(* The binary header on its own: a header is packed, and the buffer, or a  *)
(* prefix of it, is unpacked                                               *)

\* the integer with exactly the bits of S set: the sum of 2^p for p in S
BitsAt(S) == [i \in 1..64 |-> IF 64 - i \in S THEN 1 ELSE 0]

Plus(S) == [neg |-> FALSE, mag |-> BitsAt(S)]
Minus(S) == [neg |-> TRUE, mag |-> BitsAt(S)]

\* 0, 1, 258, 1000000, 2^53 - 1, 2^53, 2^53 + 1, 2^63 - 1, -1, -(2^53 + 1), -2^63
Timestamps ==
    {Plus({}), Plus({0}), Plus({1, 8}), Plus({6, 9, 14, 16, 17, 18, 19}),
     Plus(0..52), Plus({53}), Plus({0, 53}), Plus(0..62),
     Minus({0}), Minus({0, 53}), Minus({63})}

MessageTypes == {0, AUDIO_CHUNK, SOURCE_AUDIO_CHUNK, 255}

HeaderOf(phase, messageType, timestampUs, packed, unpacked) ==
    [phase |-> phase, messageType |-> messageType, timestampUs |-> timestampUs,
     packed |-> packed, unpacked |-> unpacked]

InitBinary ==
    /\ ServerInit
    /\ client = NewClient
    /\ filters = NewFilters
    /\ wire \in {HeaderOf("header", messageType, timestampUs, Undefined, Undefined) :
                    messageType \in MessageTypes, timestampUs \in Timestamps}

WireUnchanged ==
    UNCHANGED <<session, ws, hooksByClientId, sessionsBySocket, pendingRetries, emitted,
                written, hookCalls, helloRejected, pcm, registry, client, inbox, filters,
                playerStartWritten, server>>

\* packBinaryHeaderRaw(messageType, timestampUs) with the timestamp as a number
PackHeader ==
    /\ wire.phase = "header"
    /\ wire' = [wire EXCEPT !.phase = "packed",
                            !.packed = packBinaryHeaderRaw(wire.messageType,
                                                           ToNumber(wire.timestampUs))]
    /\ WireUnchanged

\* unpackBinaryHeader of the buffer
UnpackHeader ==
    /\ wire.phase = "packed"
    /\ ~wire.packed.thrown
    /\ wire' = [wire EXCEPT !.phase = "unpacked",
                            !.unpacked = unpackBinaryHeader(wire.packed.buffer)]
    /\ WireUnchanged

\* unpackBinaryHeader of a proper prefix of the buffer
UnpackPrefix ==
    /\ wire.phase = "packed"
    /\ ~wire.packed.thrown
    /\ \E n \in 0..(Len(wire.packed.buffer) - 1) :
          wire' = [wire EXCEPT !.phase = "prefix",
                               !.packed.buffer = SubSeq(@, 1, n),
                               !.unpacked = unpackBinaryHeader(SubSeq(wire.packed.buffer,
                                                                      1, n))]
    /\ WireUnchanged

NextBinary == PackHeader \/ UnpackHeader \/ UnpackPrefix

SpecBinary == InitBinary /\ [][NextBinary]_vars

-----------------------------------------------------------------------------
(* SendspinServer: the set of connected clients and the lifecycle events.  *)
(* A socket is a record; registered says that a ServerClient wraps it, so  *)
(* that setup() has put its listeners on; added and removed count the      *)
(* client-added and client-removed events emitted for it.                  *)

MaxServerSockets == 3

\* the WebSocket of a connection; outgoing: made by connectToClient, with its
\* 'open' and 'error' listeners
ServerSocket(readyState, outgoing) ==
    [readyState |-> readyState, outgoing |-> outgoing, registered |-> FALSE,
     errored |-> FALSE, added |-> 0, removed |-> 0]

\* emitEvent(new ClientAddedEvent(..)) and emitEvent(new ClientRemovedEvent(..))
\* for the client of socket s; clientId is 'unknown' before a hello
emitEvent(sv, type, s) ==
    [sv EXCEPT !.emitted = Append(@, [k |-> "event", type |-> type, client |-> s,
                                      clientId |-> "unknown"]),
               !.sockets[s].added = IF type = "client-added" THEN @ + 1 ELSE @,
               !.sockets[s].removed = IF type = "client-removed" THEN @ + 1 ELSE @]

\* the listener registerClient puts on the client's 'disconnect'
onClientDisconnect(sv, s) ==
    emitEvent([sv EXCEPT !.clients = @ \ {s}], "client-removed", s)

\* registerClient(ws, side): new ServerClient(ws, opts), whose constructor
\* runs setup(), the set, the event and the 'disconnect' listener
registerClient(sv, s) ==
    emitEvent([sv EXCEPT !.sockets[s].registered = TRUE,
                         !.clients = @ \cup {s}],
              "client-added", s)

\* ServerClient.close()
serverClientClose(sv, s) ==
    IF sv.sockets[s].readyState \in {"CLOSED", "CLOSING"} THEN sv
    ELSE [sv EXCEPT !.sockets[s].readyState = "CLOSING"]

\* SendspinServer.start(options)
serverStart(sv) == IF sv.wss THEN sv ELSE [sv EXCEPT !.wss = TRUE]

\* SendspinServer.stop(): close() on every client, then the WebSocketServer
serverStop(sv) ==
    [sv EXCEPT !.sockets = [s \in DOMAIN sv.sockets |->
                               IF s \in sv.clients
                               THEN serverClientClose(sv, s).sockets[s]
                               ELSE sv.sockets[s]],
               !.wss = FALSE]

\* SendspinServer.connectToClient(url)
connectToClient(sv) ==
    [sv EXCEPT !.sockets = Append(@, ServerSocket("CONNECTING", TRUE))]

\* the 'connection' event of the WebSocketServer
onServerConnection(sv) ==
    registerClient([sv EXCEPT !.sockets = Append(@, ServerSocket("OPEN", FALSE))],
                   Len(sv.sockets) + 1)

\* the 'open' event of an outgoing socket
onServerSocketOpen(sv, s) ==
    registerClient([sv EXCEPT !.sockets[s].readyState = "OPEN"], s)

\* the 'error' event of socket s: the listener of connectToClient calls
\* ws.close(), the listener of setup() emits 'disconnect'
onServerSocketError(sv, s) ==
    LET failed == [sv EXCEPT !.sockets[s].errored = TRUE,
                             !.sockets[s].readyState = "CLOSING"]
    IN IF sv.sockets[s].registered THEN onClientDisconnect(failed, s) ELSE failed

\* the 'close' event of socket s: the listener of setup() emits 'disconnect'
onServerSocketClose(sv, s) ==
    LET closed == [sv EXCEPT !.sockets[s].readyState = "CLOSED"]
    IN IF sv.sockets[s].registered THEN onClientDisconnect(closed, s) ELSE closed

ServerCommit(sv) ==
    /\ server' = [sv EXCEPT !.emitted = <<>>]
    /\ emitted' = sv.emitted
    /\ UNCHANGED <<session, ws, hooksByClientId, sessionsBySocket, pendingRetries,
                   written, hookCalls, helloRejected, pcm, registry, client, inbox,
                   filters, wire, playerStartWritten>>

ServerSocketIds == 1..Len(server.sockets)

ServerStart == ~server.wss /\ ServerCommit(serverStart(server))

ServerStop == server.wss /\ ServerCommit(serverStop(server))

ServerConnection ==
    /\ server.wss
    /\ Len(server.sockets) < MaxServerSockets
    /\ ServerCommit(onServerConnection(server))

ConnectToClient ==
    /\ Len(server.sockets) < MaxServerSockets
    /\ ServerCommit(connectToClient(server))

ServerSocketOpens ==
    \E s \in ServerSocketIds :
        /\ server.sockets[s].readyState = "CONNECTING"
        /\ ServerCommit(onServerSocketOpen(server, s))

\* a socket emits 'error' at most once, and 'close' after it
ServerSocketErrorOf(s) ==
    /\ s \in ServerSocketIds
    /\ server.sockets[s].readyState # "CLOSED"
    /\ ~server.sockets[s].errored
    /\ ServerCommit(onServerSocketError(server, s))

ServerSocketErrors == \E s \in 1..MaxServerSockets : ServerSocketErrorOf(s)

ServerSocketCloseOf(s) ==
    /\ s \in ServerSocketIds
    /\ server.sockets[s].readyState # "CLOSED"
    /\ ServerCommit(onServerSocketClose(server, s))

ServerSocketCloses == \E s \in 1..MaxServerSockets : ServerSocketCloseOf(s)

ServerClientCloses ==
    \E s \in server.clients :
        /\ server.sockets[s].readyState \in {"OPEN", "CONNECTING"}
        /\ ServerCommit(serverClientClose(server, s))

NextServer ==
    \/ ServerStart
    \/ ServerStop
    \/ ServerConnection
    \/ ConnectToClient
    \/ ServerSocketOpens
    \/ ServerSocketErrors
    \/ ServerSocketCloses
    \/ ServerClientCloses

SpecServer == Init /\ [][NextServer]_vars

-----------------------------------------------------------------------------
(* Properties *)

CloseEntry(reason) == [k |-> "close", code |-> {PolicyViolation}, reason |-> reason]

IsSend(e) == e.k = "send"
IsHook(e) == e.k = "hook"
IsClose(e) == e.k = "close"

Sends(em) == SelectSeq(em, IsSend)
SentTypes(em) == [i \in 1..Len(Sends(em)) |-> Sends(em)[i].frame.type]
NoSends(em) == Sends(em) = <<>>
NoHooks(em) == SelectSeq(em, IsHook) = <<>>
ClosedFor(em, reason) == \E i \in 1..Len(em) : em[i] = CloseEntry(reason)

\* the step is the delivery of text frame msg to the session
TextStep(msg) == Connected /\ Commit(onTextMessage(World, msg))

\* the well-formed JSON texts whose type is not client/hello
NonHelloMessages == RuntimeMessages \cup {JsonNull}

\* C1: while the session is not ready, every well-formed JSON text message
\* whose type is not client/hello closes the socket with 1008 "expected
\* client/hello first" and reaches no runtime handler: nothing is written and
\* no hook is called.
C1_ExpectHelloFirst ==
    [][\A msg \in NonHelloMessages :
         (~session.ready /\ TextStep(msg))
         => /\ emitted' = <<CloseEntry("expected client/hello first")>>
            /\ ~session'.ready
            /\ hookCalls' = hookCalls]_vars

\* the step is the delivery of the frame at the head of the inbox
Delivered == inbox # <<>> /\ inbox' = Tail(inbox)

\* the capability block of a family is present in the payload
BlockPresent(p, family) ==
    Truthy(Coalesce(Field(p, family \o "@v1_support"), Field(p, family \o "_support")))

RolesOf(p) ==
    IF Field(p, "supported_roles").t = "array" THEN Field(p, "supported_roles").v ELSE <<>>

\* the reason the claim gives for a hello payload: the first failing check, in
\* the order version, client_id, supported_roles, player, artwork, visualizer, source
C2_Reason(p) ==
    IF p = Undefined \/ Field(p, "version") # Num(1) THEN "invalid protocol version"
    ELSE IF Field(p, "client_id").t # "string" \/ Trim(Field(p, "client_id").v) = <<>>
    THEN "missing client_id"
    ELSE IF RolesOf(p) = <<>> THEN "missing supported_roles"
    ELSE IF Includes(RolesOf(p), PLAYER) /\ ~BlockPresent(p, "player")
    THEN "missing player support"
    ELSE IF Includes(RolesOf(p), ARTWORK) /\ ~BlockPresent(p, "artwork")
    THEN "missing artwork support"
    ELSE IF Includes(RolesOf(p), VISUALIZER) /\ ~BlockPresent(p, "visualizer")
    THEN "missing visualizer support"
    ELSE IF Includes(RolesOf(p), SOURCE) /\ ~BlockPresent(p, "source")
    THEN "missing source support"
    ELSE "ok"

\* C2: a client/hello that fails validation closes the socket with 1008 and the
\* reason of the first failing check (version, client_id, supported_roles, then
\* the player, artwork, visualizer, source capability blocks); ready stays
\* false and neither server/hello nor group/update is written.
C2_ValidationOrder ==
    [][(Delivered /\ ~session.ready /\ C2_Reason(Head(inbox).payload) # "ok")
       => /\ emitted' = <<CloseEntry(C2_Reason(Head(inbox).payload))>>
          /\ ~session'.ready
          /\ written' = written]_vars

C2_Witness ==
    /\ ~session.ready
    /\ inbox = <<>>
    /\ emitted = <<CloseEntry("missing visualizer support")>>
    /\ Includes(session.roles, ARTWORK)

\* C3: once a client/hello has been rejected, the session never becomes ready
\* or identified and onIdentified is never invoked.
C3_RejectedHelloEndsSession ==
    helloRejected =>
        /\ ~session.ready
        /\ ~session.identified
        /\ hookCalls["onIdentified"] = 0

\* C4: identified implies ready, and identified implies that the player role
\* was not admitted or an initial client/state has been received; onIdentified
\* has not been invoked before that either.
C4_IdentifiedGate ==
    (session.identified \/ hookCalls["onIdentified"] > 0) =>
        /\ session.ready
        /\ (~Includes(session.roles, PLAYER) \/ session.initialStateReceived)

C4_Witness ==
    /\ session.identified
    /\ Includes(session.roles, PLAYER)
    /\ session.initialStateReceived
    /\ hookCalls["onIdentified"] = 1

\* C5: the onIdentified hook is invoked at most once per session.
C5_IdentifiedAtMostOnce == hookCalls["onIdentified"] <= 1

TimerArmed == session.initialStateTimer = "pending"

\* C6: an accepted hello that admits the player role arms the initial-state
\* timer; when the timer fires the socket is closed with 1008 "initial state
\* timeout"; a client/state cancels the timer, after which the socket is not
\* closed for that reason; without the player role the timer is never armed.
C6_InitialStateGate ==
    /\ [][(~session.ready /\ session'.ready /\ Includes(session'.roles, PLAYER))
          => TimerArmed']_vars
    /\ [][(TimerArmed /\ session'.initialStateTimer = "expired")
          => emitted' = <<CloseEntry("initial state timeout")>>]_vars
    /\ [](session.initialStateReceived => ~TimerArmed)
    /\ [][session.initialStateReceived
          => ~ClosedFor(emitted', "initial state timeout")]_vars
    /\ [](session.initialStateTimer # "null" => Includes(session.roles, PLAYER))

C6_Witness ==
    /\ session.initialStateTimer = "expired"
    /\ emitted = <<CloseEntry("initial state timeout")>>
    /\ ~session.initialStateReceived

\* C7: an accepted hello on an OPEN transport writes server/hello and then
\* group/update{stopped}; no group/update is written on a connection before a
\* server/hello.
C7_HelloBeforeGroupUpdate ==
    /\ [][(~session.ready /\ session'.ready /\ ws.readyState = "OPEN")
          => /\ SentTypes(emitted') = <<"server/hello", "group/update">>
             /\ Sends(emitted')[2].frame.payload.playback_state = "stopped"]_vars
    /\ [](written # <<>> => written[1] = "server/hello")

\* the index of the first occurrence of role in seq
FirstIndex(seq, role) ==
    CHOOSE i \in 1..Len(seq) : seq[i] = role /\ \A j \in 1..(i - 1) : seq[j] # role

\* active is a legal resolution of the supported_roles list
ActiveRolesOk(supported, active) ==
    /\ \A i \in 1..Len(active) : active[i] \in serverSupported /\ Includes(supported, active[i])
    /\ \A i, j \in 1..Len(active) : i # j => Family(active[i]) # Family(active[j])
    /\ \A i, j \in 1..Len(active) :
           i < j => FirstIndex(supported, active[i]) < FirstIndex(supported, active[j])

\* C8: for every supported_roles list the active roles hold at most one role
\* per family, only server-supported roles, in the order of their first
\* occurrence in the list; the server/hello announces exactly these roles, and
\* the ServerClient resolution of the same list obeys the same rule.
C8_ActiveRoles ==
    /\ [][(Delivered /\ ~session.ready /\ session'.ready)
          => /\ ActiveRolesOk(RolesOf(Head(inbox).payload), session'.roles)
             /\ \A i \in 1..Len(Sends(emitted')) :
                    Sends(emitted')[i].frame.type = "server/hello"
                    => Sends(emitted')[i].frame.payload.active_roles = session'.roles]_vars
    /\ [](inbox # <<>> =>
            ActiveRolesOk(RolesOf(Head(inbox).payload),
                          serverClientResolveActiveRoles(RolesOf(Head(inbox).payload)).activeRoles))

C8_Witness ==
    /\ session.ready
    /\ session.roles = <<SOURCE, PLAYER>>
    /\ written = <<"server/hello", "group/update">>

\* the step is one of the nine outbound operations of the claim, or the
\* deferred write that send_pcm scheduled
OutboundStep ==
    \/ SendPcmAudioFrame
    \/ PcmRetryFires
    \/ SendArtwork
    \/ SendVisualizerFrame
    \/ SendStreamStart
    \/ SendStreamClear
    \/ SendStreamEnd
    \/ SendServerCommand
    \/ SendMetadata
    \/ SendControllerState

\* C9: while ready is false or the transport is not OPEN, none of send_pcm,
\* send_artwork, send_visualizer_frame, send_stream_start, send_stream_clear,
\* send_stream_end, send_server_command, send_metadata, send_controller_state
\* writes anything to the transport, JSON or binary.
C9_OutboundGating ==
    [][((~session.ready \/ ws.readyState # "OPEN") /\ OutboundStep)
       => NoSends(emitted')]_vars

IsBinarySend(e) == IsSend(e) /\ e.frame.type = "binary"

\* C10: no binary frame (audio chunk, its deferred retry, artwork, visualizer)
\* is written to the transport while its buffered amount exceeds
\* maxBufferedSend (512 KiB).
C10_BackpressureGuard ==
    \A i \in 1..Len(emitted) :
        IsBinarySend(emitted[i]) => emitted[i].buffered <= maxBufferedSend

\* C11: a send_pcm call made while the buffered amount is above maxBufferedSend
\* writes nothing to the socket at once and schedules exactly one deferred
\* send; the deferred send runs once and schedules nothing further.
C11_PcmDeferredOnce ==
    /\ [][(ws.readyState = "OPEN" /\ ws.bufferedAmount > maxBufferedSend
           /\ SendPcmAudioFrame)
          => /\ NoSends(emitted')
             /\ pendingRetries' = pendingRetries + 1]_vars
    /\ [][PcmRetryFires
          => /\ pendingRetries' = pendingRetries - 1
             /\ Len(Sends(emitted')) <= 1]_vars

\* C12: once every deferred retry has run, the audio chunks written plus the
\* drops reported by the backpressure stats equal the send_pcm calls made.
C12_PcmAccounting ==
    pendingRetries = 0
    => pcm.written + getBackpressureStats(World).drops = pcm.calls

\* the step is a send_artwork or send_visualizer_frame call that reaches
\* sendBinary while the buffered amount is above the limit
AncillaryOverLimit ==
    /\ session.ready
    /\ ws.readyState = "OPEN"
    /\ ws.bufferedAmount > maxBufferedSend
    /\ \/ SendArtwork
       \/ (Includes(session.roles, VISUALIZER) /\ SendVisualizerFrame)

\* C13: an artwork or visualizer frame sent while the buffered amount exceeds
\* maxBufferedSend is not written; the drop counter grows by exactly one and
\* the stats show the drop (drops, lastBytes, recentDrops).
C13_AncillaryDropAndCount ==
    [][AncillaryOverLimit
       => /\ NoSends(emitted')
          /\ session'.backpressureDrops = session.backpressureDrops + 1
          /\ session'.lastBackpressureBytes = ws.bufferedAmount
          /\ session'.backpressureEvents = session.backpressureEvents + 1]_vars

\* the session is live, ready and past its initial-state gate
PastGate ==
    /\ "ws" \in sessionsBySocket
    /\ session.ready
    /\ (~Includes(session.roles, PLAYER) \/ session.initialStateReceived)

\* C14: with hooks that define onIdentified registered for the session's
\* client id, in whatever order the registration, the client/hello and the
\* first client/state happen, onIdentified is invoked exactly once, and only
\* once the session is ready and (with the player role) has its initial state.
C14_HookRendezvous ==
    /\ hookCalls["onIdentified"] <= 1
    /\ hookCalls["onIdentified"] > 0
       => /\ session.ready
          /\ (~Includes(session.roles, PLAYER) \/ session.initialStateReceived)
    /\ (PastGate /\ MapHas(hooksByClientId, session.clientId))
       => hookCalls["onIdentified"] = 1

C14_Witness ==
    /\ PastGate
    /\ Includes(session.roles, PLAYER)
    /\ MapHas(hooksByClientId, session.clientId)
    /\ session.identified
    /\ hookCalls["onIdentified"] = 1

RendezvousHellos ==
    { m \in RendezvousMessages : "type" \in DOMAIN m /\ m.type = "client/hello" }

\* the roles of a supported_roles list that handleHello is to report
ReportableRoles(roles) ==
    SelectSeq(roles, LAMBDA r : r # NonString /\ r \notin serverSupported
                                /\ ~StartsWithUnderscore(r))

\* C15: when hooks with onUnsupportedRoles are registered for the client id
\* before its client/hello arrives, and the accepted hello lists a role that
\* is neither server-supported nor private, onUnsupportedRoles is invoked for
\* the session.
C15_UnsupportedRolesReported ==
    [][\A msg \in RendezvousHellos :
         (/\ MapHas(hooksByClientId, ClientC1)
          /\ ~session.ready
          /\ TextStep(msg)
          /\ session'.ready
          /\ ReportableRoles(RolesOf(msg.payload)) # <<>>)
         => hookCalls'["onUnsupportedRoles"] = hookCalls["onUnsupportedRoles"] + 1]_vars

\* C16: from the return of unregister_hooks(id) until the next
\* register_hooks(id, ...), no hook of the set that was registered for id is
\* invoked by any live session, on a later inbound message or on close, also
\* when several sessions with that client id coexist.
C16_UnregisterDetaches ==
    [][(registry.unregistered /\ registry'.unregistered)
       => \A n \in 1..Len(emitted') :
             IsHook(emitted'[n]) => emitted'[n].clientId # ClientC1]_vars

\* the entries of the registry whose session has the client id
SessionsOf(clientId) ==
    { i \in 1..Len(registry.sessions) : registry.sessions[i].session.clientId = clientId }

\* C17: get_session(id) returns a playback session whenever a live session
\* with that client id has connection reason playback, whatever the order of
\* connection; a discovery session only when there is no such playback
\* session; and nothing when no session has the id.
C17_GetSessionPrefersPlayback ==
    \A id \in {ClientC1, ClientC2} :
        LET i == getSessionOf(registry.sessions, id, 1, 0, 0)
            playback == { j \in SessionsOf(id) :
                            registry.sessions[j].connectionReason = PLAYBACK }
        IN /\ SessionsOf(id) = {} <=> i = 0
           /\ i # 0 => i \in SessionsOf(id)
           /\ playback # {} => i \in playback

C17_Witness ==
    /\ Len(registry.sessions) = 2
    /\ SessionsOf(ClientC1) = {1, 2}
    /\ registry.sessions[1].connectionReason = DISCOVERY
    /\ registry.sessions[2].connectionReason = PLAYBACK
    /\ getSessionOf(registry.sessions, ClientC1, 1, 0, 0) = 2

\* C18: when the transport closes the registry drops the session (get_session
\* no longer returns it) and destroy runs; the attached onDisconnected hook is
\* invoked exactly once over the session's lifetime; after destroy the
\* initial-state timer is not armed and no "initial state timeout" close is
\* issued.
C18_Teardown ==
    /\ [](ws.readyState = "CLOSED"
          => /\ "ws" \notin sessionsBySocket
             /\ ~getSession(World, session.clientId)
             /\ ~TimerArmed)
    /\ [](hookCalls["onDisconnected"] <= 1)
    /\ [][(OnClose /\ HasHook(World, "onDisconnected"))
          => /\ hookCalls'["onDisconnected"] = 1
             /\ emitted' = <<[k |-> "hook", name |-> "onDisconnected",
                              hooks |-> session.hooks.id,
                              clientId |-> session.clientId]>>]_vars
    /\ [][ws.readyState = "CLOSED"
          => ~ClosedFor(emitted', "initial state timeout")]_vars

C18_Witness ==
    /\ ws.readyState = "CLOSED"
    /\ hookCalls["onDisconnected"] = 1
    /\ Includes(session.roles, PLAYER)
    /\ session.ready
    /\ ~session.initialStateReceived

-----------------------------------------------------------------------------
(* The client's connect() *)

Settled(k) ==
    /\ Len(client.connects) >= k
    /\ client.connects[k].state \in {"resolved", "rejected"}

\* C19: every connect(url, timeout_ms) call eventually settles: a call whose
\* transport does not reach OPEN within timeout_ms is rejected, and no call
\* stays pending.
C19_ConnectSettles ==
    \A k \in 1..MaxClientSockets : (Len(client.connects) >= k) ~> Settled(k)

Before(seq, a, b) ==
    \E i, j \in 1..Len(seq) : i < j /\ seq[i] = a /\ seq[j] = b

HelloFirst(sock) == sock.sent # <<>> => sock.sent[1] = "client/hello"

StateAfterHello(sock) ==
    Includes(sock.sent, "client/state") =>
        Includes(client.roles, PLAYER) /\ sock.heardHello

TimeAfterState(sock) ==
    Includes(sock.sent, "client/time") =>
        /\ sock.heardHello
        /\ Includes(client.roles, PLAYER) => Before(sock.sent, "client/state", "client/time")

TimerAfterTime ==
    client.timeSyncTimer =>
        client.ws # 0 /\ Includes(client.sockets[client.ws].sent, "client/time")

\* the connection a connect() call that resolved in the last step was about
ResolvedOn ==
    {IF e.call = 0 THEN client.ws ELSE e.call :
        e \in {emitted[n] : n \in {m \in 1..Len(emitted) :
                    emitted[m].k = "settle" /\ emitted[m].outcome = "resolved"}}}

ResolvedAfterHello ==
    \A s \in ResolvedOn : s # 0 /\ client.sockets[s].heardHello

\* C20: on every connection the first message the client writes is
\* client/hello; client/state is written only by a client that declares the
\* player role and only after server/hello was received; the first
\* client/time comes after that, the time-sync timer is armed only after it,
\* and connect resolves only after server/hello was received.
C20_ConnectSequence ==
    /\ \A s \in SocketIds :
          /\ HelloFirst(client.sockets[s])
          /\ StateAfterHello(client.sockets[s])
          /\ TimeAfterState(client.sockets[s])
    /\ TimerAfterTime
    /\ ResolvedAfterHello

-----------------------------------------------------------------------------
(* The client's time-sync loop *)

\* the last step wrote a client/time
WroteClientTime ==
    \E n \in 1..Len(emitted) : emitted[n].k = "send" /\ emitted[n].type = "client/time"

\* C21: after disconnect (by the caller, a transport close or a transport
\* error, at whatever point of connect or of a timer callback), and until a
\* new connect, no time-sync timer is armed and no client/time is written.
C21_TimeSyncCancelled ==
    ~client.connected => ~client.timeSyncTimer /\ ~WroteClientTime

-----------------------------------------------------------------------------
(* The client's stream handling *)

TextData(message) == [kind |-> "string", message |-> message]

Notified(em, name) == \E n \in 1..Len(em) : em[n].k = "notify" /\ em[n].name = name

SentType(em, type) == \E n \in 1..Len(em) : em[n].k = "send" /\ em[n].type = type

\* C22: a stream/start{player} that arrives while the stream is not active
\* notifies the stream-start listeners and sends a client/time at once; one
\* that arrives while the stream is active only replaces the current audio
\* format: no notification, no client/time.
C22_StreamStartHandling ==
    [][\A s \in 1..MaxClientSockets, player \in ValidPlayers :
         SocketMessageOf(s, TextData(StreamStartWith(player)))
         => /\ client'.currentAudioFormat = AudioFormatOf(player.v)
            /\ ~client.streamActive
               => Notified(emitted', "streamStart") /\ SentType(emitted', "client/time")
            /\ client.streamActive
               => /\ emitted' = <<>>
                  /\ client' = [client EXCEPT
                                  !.currentAudioFormat = AudioFormatOf(player.v)]]_vars

BufferData(buf) == [kind |-> "buffer", buf |-> buf]

\* the notification of audio-chunk listeners for frame buf
ChunkEntry(buf, format) ==
    [k |-> "notify", name |-> "audioChunk",
     timestampUs |-> ToNumber(readBigInt64BE(SubSeq(buf, 2, BINARY_HEADER_SIZE))),
     payload |-> SubSeq(buf, BINARY_HEADER_SIZE + 1, Len(buf)),
     format |-> format]

\* the step is the delivery of a stream/end that covers the player role
PlayerStreamEndStep ==
    \E s \in 1..MaxClientSockets, roles \in {Undefined, Arr(<<PLAYER>>)} :
        SocketMessageOf(s, TextData(StreamEndWith(roles)))

StreamStartStep ==
    \E s \in 1..MaxClientSockets, player \in ValidPlayers \cup {SurroundPlayer} :
        SocketMessageOf(s, TextData(StreamStartWith(player)))

BE_i64(n) == [j \in 1..8 |-> IF j <= 4 THEN (IF n < 0 THEN 255 ELSE 0)
                             ELSE (n \div (256 ^ (8 - j))) % 256]

SourceFrame(ts, data) ==
    [k |-> "send", sock |-> client.ws, type |-> "binary",
     payload |-> <<SOURCE_AUDIO_CHUNK>> \o BE_i64(ts) \o data]

RejectedWith(error) == emitted' = <<[k |-> "reject", error |-> error]>>

NothingWritten == \A s \in 1..Len(client.sockets) : client'.sockets[s].sent = client.sockets[s].sent

\* what the call does by its arguments and the filter's state
SourceChunkOutcome(audioData, opts) ==
    /\ opts.serverTimestampUs # Undefined
         => emitted' = <<SourceFrame(opts.serverTimestampUs.v, audioData)>>
    /\ (opts.serverTimestampUs = Undefined /\ opts.captureTimestampUs = Undefined)
         => /\ RejectedWith("captureTimestampUs or serverTimestampUs must be provided")
            /\ NothingWritten
    /\ (/\ opts.serverTimestampUs = Undefined
        /\ opts.captureTimestampUs # Undefined
        /\ ~isSynchronized(client.timeFilter))
         => /\ RejectedWith("time sync not ready; provide serverTimestampUs explicitly")
            /\ NothingWritten

\* C24: on a connected client, sendSourceAudioChunk with serverTimestampUs
\* writes exactly one frame [12, BE_i64(serverTimestampUs), data] whether or
\* not the time filter is synchronized; without serverTimestampUs it rejects
\* for the missing timestamp when captureTimestampUs is absent too, and for
\* the missing synchronisation when the filter is not synchronized, and a
\* rejected call writes nothing to the socket.
C24_SourceChunkConnected ==
    [][\A audioData \in AudioData, opts \in SourceOpts :
          (SendSourceAudioChunkOf(audioData, opts) /\ isConnected(client))
              => SourceChunkOutcome(audioData, opts)]_vars

\* a frame with a given server timestamp went out while the filter was not
\* synchronized
C24_Witness ==
    /\ ~isSynchronized(client.timeFilter)
    /\ isConnected(client)
    /\ \E e \in {emitted[i] : i \in 1..Len(emitted)} :
          /\ e.k = "send" /\ e.type = "binary"
          /\ e.payload = <<SOURCE_AUDIO_CHUNK, 0, 0, 0, 0, 0, 0, 27, 88, 1, 2>>

\* C24 as stated, for every client: the same outcomes whether or not the
\* client is connected.
C24_SourceChunkPreconditions ==
    [][\A audioData \in AudioData, opts \in SourceOpts :
          SendSourceAudioChunkOf(audioData, opts)
              => SourceChunkOutcome(audioData, opts)]_vars


(* ---- C25 ---- *)

BootstrapCalls ==
    <<Call("update", 100, 10, 0), Call("update", 120, 10, 1000000)>>

\* C25: on a new filter update(100, 10, 0) followed by update(120, 10, 1000000)
\* leaves the filter synchronized with count 2 and offset 120; the first
\* update of a filter moves count from 0 to 1 and sets the offset to the
\* measurement, and an update with another timestamp moves count from 1 to 2.
C25_Bootstrap ==
    [][\A measurement \in Measurements, maxError \in MaxErrors, timeAdded \in TimesAdded :
          FilterUpdateOf(measurement, maxError, timeAdded)
              => /\ filters.subject.count = 0
                    => /\ filters'.subject.count = 1
                       /\ filters'.subject.offset = Exact(measurement)
                 /\ (filters.subject.count = 1 /\ timeAdded # filters.subject.lastUpdate)
                    => filters'.subject.count = 2
                 /\ filters'.log = BootstrapCalls
                    => /\ isSynchronized(filters'.subject)
                       /\ filters'.subject.count = 2
                       /\ filters'.subject.offset = Exact(120)]_vars

(* ---- C26 ---- *)

\* what the filter's getters and projections read: every field but lastUpdate
Estimates(f) ==
    [count |-> f.count, offset |-> f.offset, drift |-> f.drift,
     offsetCovariance |-> f.offsetCovariance,
     offsetDriftCovariance |-> f.offsetDriftCovariance,
     driftCovariance |-> f.driftCovariance, current |-> f.current,
     isSynchronized |-> isSynchronized(f)]

\* C26: after reset() the filter answers every sequence of updates as a new
\* filter does: the same count, estimates, covariances and synchronisation
\* after each update, whatever timestamps the updates carry.
C26_ResetIsFresh == Estimates(filters.subject) = Estimates(filters.fresh)

(* ---- C28 ---- *)

\* C28: packing a header with a message type in 0..255 and a timestamp in
\* [-2^63, 2^63) gives exactly 9 bytes, unpacking them gives the type and the
\* timestamp back, and unpacking fewer than 9 bytes fails.
C28_HeaderRoundTrip ==
    /\ wire.phase \in {"packed", "unpacked", "prefix"} => ~wire.packed.thrown
    /\ wire.phase \in {"packed", "unpacked"} => Len(wire.packed.buffer) = BINARY_HEADER_SIZE
    /\ wire.phase = "unpacked"
          => wire.unpacked = [thrown |-> FALSE, messageType |-> wire.messageType,
                              timestampUs |-> wire.timestampUs]
    /\ wire.phase = "prefix" => wire.unpacked.thrown


(* ---- C27 ---- *)

FormatValid(format) ==
    /\ format.codec \in {"pcm", "flac", "opus"}
    /\ format.sampleRate > 0
    /\ format.channels > 0
    /\ format.bitDepth > 0

\* C27: after every client/hello and every stream/request-format the
\* session's stream format has a codec among pcm, flac and opus and a
\* positive sample rate, channel count and bit depth; a request that names
\* an unknown codec leaves the codec as it was.
C27_StreamFormatValid ==
    [][/\ FormatValid(session'.streamFormat)
       /\ \A msg \in UnknownCodecRequests :
             TextStep(msg) => session'.streamFormat.codec = session.streamFormat.codec]_vars


(* ---- C29 ---- *)

\* the caller ends the player's stream: roles absent or including player
PlayerStreamEndCall ==
    \E roles \in {<<>>, <<PLAYER>>} : Commit(sendStreamEnd(World, roles))

\* C29: whenever activeStream is true a stream/start carrying the player
\* format has been written to the transport on this connection, and
\* sendStreamEnd for the player role leaves activeStream false.
C29_ActiveStreamWritten ==
    [][/\ session'.activeStream => playerStartWritten'.ever
       /\ PlayerStreamEndCall => ~session'.activeStream]_vars


(* ---- C30 ---- *)

BinaryStep(buf) == Connected /\ Commit(handleBinary(World, buf))

\* C30: while the session is not ready, before a hello is accepted and after
\* a hello was rejected, an inbound binary frame is ignored: handleBinary
\* does not call onSourceAudio and changes nothing of the session.
C30_BinaryIgnoredUntilReady ==
    [][\A buf \in Buffers :
          (BinaryStep(buf) /\ ~session.ready)
              => /\ NoHooks(emitted')
                 /\ session' = session
                 /\ hookCalls' = hookCalls]_vars


(* ---- C31 ---- *)

\* the resolution as the rule gives it: an entry of an admitted family is
\* skipped before anything else is asked of it
RECURSIVE FamilyFirst(_, _, _, _)
FamilyFirst(rest, admitted, reported, families) ==
    IF rest = <<>> THEN [activeRoles |-> admitted, unsupportedRoles |-> reported]
    ELSE LET role == Head(rest)
         IN IF role = NonString \/ Family(role) \in families
            THEN FamilyFirst(Tail(rest), admitted, reported, families)
            ELSE IF role \in serverSupported
            THEN FamilyFirst(Tail(rest), Append(admitted, role), reported,
                             families \cup {Family(role)})
            ELSE IF ~StartsWithUnderscore(role)
            THEN FamilyFirst(Tail(rest), admitted, Append(reported, role), families)
            ELSE FamilyFirst(Tail(rest), admitted, reported, families)

\* C31: in the resolution of a supported_roles list an entry whose family has
\* already been admitted is skipped, neither admitted nor added to
\* unsupportedRoles; only entries of a family not yet admitted that are not
\* server-supported and do not start with '_' are reported as unsupported.
C31_AdmittedFamilySkipped ==
    inbox # <<>>
        => resolveActiveRoles(RolesOf(Head(inbox).payload))
             = FamilyFirst(RolesOf(Head(inbox).payload), <<>>, <<>>, {})


(* ---- C32 ---- *)

\* the index a request names: clamp(floor(channel), 0..3)
ClampedIndex(artwork) ==
    IF artwork.channel.v < 0 THEN 0 ELSE IF artwork.channel.v > 3 THEN 3 ELSE artwork.channel.v

\* the request merged over the current configuration of a channel
MergedChannel(current, artwork) ==
    [source |-> IF "source" \in DOMAIN artwork THEN artwork.source.v ELSE current.source,
     format |-> IF "format" \in DOMAIN artwork THEN artwork.format.v ELSE current.format,
     width  |-> IF "media_width" \in DOMAIN artwork THEN artwork.media_width.v
                ELSE current.width,
     height |-> IF "media_height" \in DOMAIN artwork THEN artwork.media_height.v
                ELSE current.height]

ArtworkStartSent(em) ==
    \E i \in 1..Len(em) :
        /\ em[i].k = "send"
        /\ em[i].frame.type = "stream/start"
        /\ "artwork" \in DOMAIN em[i].frame.payload

\* C32: on an open transport a stream/request-format with an artwork section,
\* with or without a player section, updates the channel at index
\* clamp(floor(channel), 0..3) by merging the request over its configuration
\* and re-sends stream/start{artwork} if and only if the artwork role is
\* active and the index is within the negotiated channels; otherwise the
\* artwork channels stay as they are and no stream/start{artwork} is sent.
C32_ArtworkFormatRequest ==
    [][\A msg \in ArtworkRequests :
          (TextStep(msg) /\ session.ready /\ ws.readyState = "OPEN")
              => LET artwork == msg.payload.v.artwork.v
                     idx == ClampedIndex(artwork)
                     channels == session.artworkChannels
                 IN IF Includes(session.roles, ARTWORK) /\ idx < Len(channels)
                    THEN /\ session'.artworkChannels
                              = [channels EXCEPT ![idx + 1] = MergedChannel(@, artwork)]
                         /\ ArtworkStartSent(emitted')
                    ELSE /\ session'.artworkChannels = channels
                         /\ ~ArtworkStartSent(emitted')]_vars


(* ---- C33 ---- *)

\* the timestamp of the last update the filter applied; none has been
\* applied by a new filter or since reset()
RECURSIVE LastApplied(_)
LastApplied(log) ==
    IF log = <<>> \/ log[Len(log)].op = "reset" THEN [applied |-> FALSE]
    ELSE LET earlier == LastApplied(SubSeq(log, 1, Len(log) - 1))
             call == log[Len(log)]
         IN IF earlier.applied /\ earlier.timeAdded = call.timeAdded THEN earlier
            ELSE [applied |-> TRUE, timeAdded |-> call.timeAdded]

\* C33: an update whose timestamp equals the timestamp of the last applied
\* update changes nothing: count, offset, drift, the covariances and the
\* projection snapshot stay as they are; every update with another timestamp
\* is applied and changes the state.
C33_Dedupe ==
    [][\A measurement \in Measurements, maxError \in MaxErrors, timeAdded \in TimesAdded :
          FilterUpdateOf(measurement, maxError, timeAdded)
              => LET last == LastApplied(filters.log)
                 IN IF last.applied /\ last.timeAdded = timeAdded
                    THEN Estimates(filters'.subject) = Estimates(filters.subject)
                    ELSE filters'.subject # filters.subject]_vars


(* ---- C34 ---- *)

\* the attempt on the current socket ended with the hello timeout: its
\* connect() call was rejected, no server/hello was heard on the socket,
\* and nothing has closed it since
HelloTimedOut ==
    /\ client.ws # 0
    /\ client.connected
    /\ client.connects[client.ws].state = "rejected"
    /\ client.sockets[client.ws].readyState = "OPEN"
    /\ ~client.sockets[client.ws].heardHello

ConnectCall == ClientCommit(connect(client, "valid"))

\* C34: when server/hello does not arrive in time the connect() call fails,
\* and the attempt is over: the next connect() opens a new transport for a
\* new attempt and does not return successfully without a server/hello.
C34_HelloTimeoutTerminal ==
    [][/\ \A k \in 1..MaxClientSockets :
             (HelloTimerFires(k) /\ client.connects[k].state = "awaitHello")
                 => client'.connects[k].state = "rejected"
       /\ (ConnectCall /\ HelloTimedOut)
             => /\ Len(client'.sockets) = Len(client.sockets) + 1
                /\ \A n \in 1..Len(emitted') :
                       ~(emitted'[n].k = "settle" /\ emitted'[n].outcome = "resolved")]_vars


\* C35: at most one time-sync timeout is armed in every state; the timer
\* callback arms the next timeout whether its client/time was written or not;
\* and only a step that leaves the client disconnected clears the timer.
C35_SingleTimeSyncTimer ==
    [][/\ client.timeSyncTimeouts <= 1
       /\ client'.timeSyncTimeouts <= 1
       /\ TimeSyncTimerFires =>
              client'.timeSyncTimer /\ client'.timeSyncTimeouts = 1
       /\ (client.timeSyncTimer /\ ~client'.timeSyncTimer) =>
              ~isConnected(client')]_vars

\* the timer ran on an established connection, wrote its client/time and a
\* new timeout is armed
C35_Witness ==
    /\ isConnected(client)
    /\ client.timeSyncTimer
    /\ client.timeSyncTimeouts = 1
    /\ emitted = <<[k |-> "send", sock |-> client.ws, type |-> "client/time"]>>



(* ---- C36 ---- *)

IsAudioChunk(e) ==
    e.k = "send" /\ e.frame.type = "binary" /\ e.frame.messageType = AUDIO_CHUNK

\* the wire history before the n-th effect of a handler that started in
\* history
RECURSIVE HistoryBefore(_, _, _)
HistoryBefore(history, effects, n) ==
    IF n <= 1 THEN history
    ELSE LET before == HistoryBefore(history, effects, n - 1)
             e == effects[n - 1]
         IN IF e.k = "send" THEN AfterFrame(before, e.frame) ELSE before

\* C36: every AUDIO_CHUNK frame written to the transport, the one of the
\* 5 ms deferred retry included, comes after a stream/start carrying the
\* player format on this connection with no stream/end written in between.
C36_ChunkAfterStreamStart ==
    [][\A n \in 1..Len(emitted') :
          IsAudioChunk(emitted'[n])
              => HistoryBefore(playerStartWritten, emitted', n).live]_vars



(* ---- C37 ---- *)

\* C37: a session no client/hello of which was accepted has its client id,
\* client name and active roles unset, whatever hellos it rejected, and
\* getSession(id) never resolves to such a session.
C37_RejectedHelloLeavesNoIdentity ==
    /\ \A i \in 1..Len(registry.sessions) :
          ~registry.sessions[i].session.ready
              => /\ registry.sessions[i].session.clientId = <<>>
                 /\ registry.sessions[i].session.clientName = [t |-> "null"]
                 /\ registry.sessions[i].session.roles = <<>>
    /\ \A id \in {ClientC1, ClientC2} :
          LET i == getSessionOf(registry.sessions, id, 1, 0, 0)
          IN i # 0 => registry.sessions[i].session.ready



(* ---- C38 ---- *)

IsDisconnectNotice(e) == e.k = "notify" /\ e.name = "disconnect"

\* C38: the end of a connection on which server/hello was received notifies
\* the disconnect listeners at most once: no step taken while that
\* connection is the client's socket notifies them twice, be it the close
\* event that meets a waiting disconnect(), a close by the server, or an
\* error followed by close.
C38_DisconnectNotifiedOnce ==
    [][(client.ws # 0 /\ client.sockets[client.ws].heardHello)
           => Len(SelectSeq(emitted', IsDisconnectNotice)) <= 1]_vars



(* ---- C39 ---- *)

StreamStartOf(s, player) == SocketMessageOf(s, TextData(StreamStartWith(player)))

\* C39: whenever streamActive is true currentAudioFormat is set, and it is
\* the format of the last stream/start{player} received: a format is only
\* adopted in the delivery of a stream/start and is then that message's; a
\* stream/start whose player format PCMFormat rejects leaves streamActive and
\* currentAudioFormat as they were.
C39_StreamActiveHasFormat ==
    [][/\ client'.streamActive => client'.currentAudioFormat # Undefined
       /\ (/\ client'.currentAudioFormat # Undefined
           /\ client'.currentAudioFormat # client.currentAudioFormat)
              => StreamStartStep
       /\ \A s \in 1..MaxClientSockets, player \in ValidPlayers \cup {SurroundPlayer} :
             StreamStartOf(s, player) =>
                 IF PCMFormatThrows(player.v)
                 THEN /\ client'.streamActive = client.streamActive
                      /\ client'.currentAudioFormat = client.currentAudioFormat
                 ELSE /\ client'.streamActive
                      /\ client'.currentAudioFormat = AudioFormatOf(player.v)]_vars



(* ---- C40 ---- *)

\* C40: for each registered connection exactly one client-added event has
\* been emitted and at most one client-removed, exactly one once the socket
\* is closed, also when the socket emitted both error and close; after
\* client-removed the client is not in connectedClients.
C40_LifecycleEvents ==
    \A s \in ServerSocketIds :
        server.sockets[s].registered =>
            /\ server.sockets[s].added = 1
            /\ server.sockets[s].removed <= 1
            /\ server.sockets[s].readyState = "CLOSED" => server.sockets[s].removed = 1
            /\ server.sockets[s].removed > 0 => s \notin server.clients

====
